---- MODULE Spec2Model ----
(***************************************************************************)
(* Telemetry ingestion, bucketed history and live fan-out of the          *)
(* industrial-api server (src/src/server.ts).                             *)
(*                                                                         *)
(* Representation of JavaScript data:                                      *)
(*  - a JSON value is a tagged record (field t is the tag);                *)
(*  - a string is a sequence of tokens; a token is the whitespace          *)
(*    character " ", a decimal digit, or an opaque run of other            *)
(*    characters (so "S1" is <<"S1">> and " S1 " is <<" ","S1"," ">>);     *)
(*  - a string holding the ISO-8601 text of an instant is Iso(ms);         *)
(*  - a Date object is DateOf(ms) or InvalidDate; instants are             *)
(*    milliseconds since the epoch.                                        *)
(***************************************************************************)
EXTENDS Integers, Sequences, FiniteSets, TLC

(* ---------------------------------------------------------------------- *)
(* JSON values                                                             *)
(* ---------------------------------------------------------------------- *)
Undef == [t |-> "undef"]

Null == [t |-> "null"]

NaN == [t |-> "nan"]

Num(n) == [t |-> "num", n |-> n]

Bool(b) == [t |-> "bool", b |-> b]

Str(s) == [t |-> "str", s |-> s]

Iso(ms) == [t |-> "iso", ms |-> ms]

Obj == [t |-> "obj"]

Arr(es) == [t |-> "arr", es |-> es]

DateOf(ms) == [t |-> "date", ms |-> ms]

InvalidDate == [t |-> "invalid"]

Digits == {"0", "1", "2", "3", "4", "5", "6", "7", "8", "9"}

DigitVal(d) ==
  CASE d = "0" -> 0 [] d = "1" -> 1 [] d = "2" -> 2 [] d = "3" -> 3
    [] d = "4" -> 4 [] d = "5" -> 5 [] d = "6" -> 6 [] d = "7" -> 7
    [] d = "8" -> 8 [] d = "9" -> 9

(* x == null in JavaScript: true of null and of undefined *)
IsNullish(x) == x.t \in {"undef", "null"}

(* String.prototype.trim *)
RECURSIVE TrimLeft(_)
TrimLeft(s) ==
  IF s # <<>> /\ Head(s) = " " THEN TrimLeft(Tail(s)) ELSE s

RECURSIVE TrimRight(_)
TrimRight(s) ==
  IF s # <<>> /\ s[Len(s)] = " " THEN TrimRight(SubSeq(s, 1, Len(s) - 1)) ELSE s

Trim(s) == TrimRight(TrimLeft(s))

(* String(x) for the values the handlers convert *)
ToStr(x) ==
  CASE x.t = "str" -> x.s
    [] x.t = "iso" -> <<"iso">>
    [] x.t = "undef" -> <<"undefined">>
    [] x.t = "null" -> <<"null">>
    [] x.t = "bool" -> IF x.b THEN <<"true">> ELSE <<"false">>
    [] x.t = "num" -> <<"num">>
    [] OTHER -> <<"[object Object]">>

RECURSIVE DecimalOf(_, _)
DecimalOf(s, acc) ==
  IF s = <<>> THEN acc ELSE DecimalOf(Tail(s), 10 * acc + DigitVal(Head(s)))

(* Number(x): strings are trimmed, "" is 0, a run of digits with an        *)
(* optional sign is its decimal value, any other text is NaN              *)
ToNumber(x) ==
  CASE x.t = "num" -> x
    [] x.t = "null" -> Num(0)
    [] x.t = "bool" -> IF x.b THEN Num(1) ELSE Num(0)
    [] x.t = "str" ->
         LET s == Trim(x.s)
             signed == s # <<>> /\ Head(s) = "-"
             ds == IF signed THEN Tail(s) ELSE s
         IN IF s = <<>> THEN Num(0)
            ELSE IF ds # <<>> /\ \A i \in 1..Len(ds) : ds[i] \in Digits
                 THEN Num(IF signed THEN 0 - DecimalOf(ds, 0) ELSE DecimalOf(ds, 0))
            ELSE NaN
    [] OTHER -> NaN

(* truthiness of a value used as a condition *)
Truthy(x) ==
  CASE x.t \in {"undef", "null", "nan"} -> FALSE
    [] x.t = "bool" -> x.b
    [] x.t = "num" -> x.n # 0
    [] x.t = "str" -> x.s # <<>>
    [] OTHER -> TRUE

(* new Date(String(t)) *)
DateParse(x) == IF x.t = "iso" THEN DateOf(x.ms) ELSE InvalidDate

(* ---------------------------------------------------------------------- *)
(* Ingestion: normalisation of one request body                           *)
(* ---------------------------------------------------------------------- *)
(* A request body is a record of its own properties in the order          *)
(* stationId, deviceId, time, events, k, v, then the entries of fields    *)
(* (a sequence of <<name, value>> pairs); an absent property is Undef.    *)

(* StationOf without the trim *)
StationOf_NoTrim(body) ==
  IF IsNullish(body.stationId) THEN <<>> ELSE ToStr(body.stationId)

(* const stationId = String(body.stationId ?? "").trim() *)
StationOf(body) ==
  Trim(IF IsNullish(body.stationId) THEN <<>> ELSE ToStr(body.stationId))

(* body.deviceId == null ? null : String(body.deviceId ?? "").trim() || null *)
DeviceOf(body) ==
  IF IsNullish(body.deviceId) THEN Null
  ELSE LET d == Trim(ToStr(body.deviceId))
       IN IF d = <<>> THEN Null ELSE Str(d)

(* const num = typeof v === "number" ? v : v == null ? null : Number(v) *)
NumOf(v) ==
  IF v.t = "num" THEN v
  ELSE IF IsNullish(v) THEN Null
  ELSE ToNumber(v)

(* pushRow without the not-a-number test *)
pushRow_KeepNaN(rows, k, v, t, now, stationId, deviceId) ==
  IF IsNullish(k) THEN rows
  ELSE Append(rows, [k |-> ToStr(k), v |-> NumOf(v),
                     time |-> IF Truthy(t) THEN DateParse(t) ELSE DateOf(now),
                     stationId |-> stationId, deviceId |-> deviceId])

(* const pushRow = (k, v, t) => { ... rows.push(...) } *)
pushRow(rows, k, v, t, now, stationId, deviceId) ==
  IF IsNullish(k) THEN rows
  ELSE LET key == ToStr(k)
           num == NumOf(v)
           ts == IF Truthy(t) THEN DateParse(t) ELSE DateOf(now)
       IN IF num # Null /\ num = NaN THEN rows
          ELSE Append(rows, [k |-> key, v |-> num, time |-> ts,
                             stationId |-> stationId, deviceId |-> deviceId])

(* e?.k, e?.v, e?.time: a property of a null or non-object entry is undefined *)
Prop(e, name) ==
  IF e.t = "entry" THEN e[name] ELSE Undef

Entry(k, v, time) == [t |-> "entry", k |-> k, v |-> v, time |-> time]

(* for (const e of body.events) pushRow(e?.k, e?.v, e?.time) *)
RECURSIVE EventRows(_, _, _, _, _)
EventRows(rows, es, now, stationId, deviceId) ==
  IF es = <<>> THEN rows
  ELSE EventRows(
         pushRow(rows, Prop(Head(es), "k"), Prop(Head(es), "v"),
                 Prop(Head(es), "time"), now, stationId, deviceId),
         Tail(es), now, stationId, deviceId)

(* Object.entries(body): the own properties in insertion order *)
OwnEntries(body) ==
  LET named == << <<(<<"stationId">>), body.stationId>>,
                  <<(<<"deviceId">>), body.deviceId>>,
                  <<(<<"time">>), body.time>>,
                  <<(<<"events">>), body.events>>,
                  <<(<<"k">>), body.k>>,
                  <<(<<"v">>), body.v>> >>
  IN SelectSeq(named, LAMBDA p : p[2] # Undef) \o body.fields

Reserved == {<<"stationId">>, <<"deviceId">>, <<"time">>}

(* for (const [k, v] of Object.entries(body)) { skip reserved; numbers only } *)
RECURSIVE FlatRows(_, _, _, _, _, _)
FlatRows(rows, ps, t, now, stationId, deviceId) ==
  IF ps = <<>> THEN rows
  ELSE LET name == Head(ps)[1]
           v == Head(ps)[2]
           next == IF name \in Reserved THEN rows
                   ELSE IF v.t = "num"
                        THEN pushRow(rows, Str(name), v, t, now, stationId, deviceId)
                        ELSE rows
       IN FlatRows(next, Tail(ps), t, now, stationId, deviceId)

(* Normalize trying the k/v pair before the events list *)
Normalize_PairFirst(body, now) ==
  LET stationId == StationOf(body)
      deviceId == DeviceOf(body)
  IN IF body.k # Undef /\ body.v # Undef
     THEN pushRow(<<>>, body.k, body.v, body.time, now, stationId, deviceId)
     ELSE IF body.events.t = "arr"
          THEN EventRows(<<>>, body.events.es, now, stationId, deviceId)
          ELSE FlatRows(<<>>, OwnEntries(body), body.time, now, stationId, deviceId)

(* the shape selection of the handler: events list, then k/v pair, then flat map *)
Normalize(body, now) ==
  LET stationId == StationOf(body)
      deviceId == DeviceOf(body)
  IN IF body.events.t = "arr"
     THEN EventRows(<<>>, body.events.es, now, stationId, deviceId)
     ELSE IF body.k # Undef /\ body.v # Undef
          THEN pushRow(<<>>, body.k, body.v, body.time, now, stationId, deviceId)
          ELSE FlatRows(<<>>, OwnEntries(body), body.time, now, stationId, deviceId)

(* the keys the live dashboard shows *)
SnapshotKeys ==
  {<<"status">>, <<"speed">>, <<"count">>, <<"pass">>, <<"fail">>,
   <<"suspect">>, <<"packedFg">>}

(* obj[key] = value on a JavaScript object, modelled as a function *)
Put(obj, key, value) ==
  [x \in DOMAIN obj \cup {key} |-> IF x = key THEN value ELSE obj[x]]

(* SnapshotFold without the test of the key against the allow-list *)
RECURSIVE SnapshotFold_AnyKey(_, _)
SnapshotFold_AnyKey(snapshot, rows) ==
  IF rows = <<>> THEN snapshot
  ELSE LET r == Head(rows)
       IN SnapshotFold_AnyKey(
            IF r.v # Null THEN Put(snapshot, r.k, r.v) ELSE snapshot,
            Tail(rows))

(* const snapshot = { stationId, ts }; for (const r of rows) ... snapshot[r.k] = r.v *)
RECURSIVE SnapshotFold(_, _)
SnapshotFold(snapshot, rows) ==
  IF rows = <<>> THEN snapshot
  ELSE LET r == Head(rows)
       IN SnapshotFold(
            IF r.k \in SnapshotKeys /\ r.v # Null THEN Put(snapshot, r.k, r.v)
            ELSE snapshot,
            Tail(rows))

(* ---------------------------------------------------------------------- *)
(* State                                                                   *)
(* ---------------------------------------------------------------------- *)
VARIABLES
  now,        \* the wall clock, in milliseconds
  store,      \* the Telemetry table: the rows committed so far
  channels,   \* const channels = new Map<string, Set<Response>>(): station key -> set object
  sets,       \* the Set<Response> objects, each an insertion-ordered sequence of channels
  chans,      \* the live connections (Response objects) ever opened
  calls,      \* the POST /api/telemetry calls ever started
  crashed,    \* an uncaught exception has ended the process
  hist,       \* the GET /api/telemetry/:stationId call made last
  sims,       \* the simulator runs ever started by POST /api/sim/start/:id
  live,       \* the live view of a browser (component Live, src/src/server.ts 714-997)
  smooth      \* the smoothed live view of a browser (component Live, Live.tsx)

vars == <<now, store, channels, sets, chans, calls, crashed, hist, sims, live, smooth>>

(* the instant the process starts at *)
T0 == 1000

(* a map with no entry; Map.set and Map.delete *)
EmptyMap == <<>>

MapDelete(m, key) == [x \in DOMAIN m \ {key} |-> m[x]]

(* Set.add and Set.delete on an insertion-ordered set *)
SetAdd(set, x) ==
  IF \E i \in 1..Len(set) : set[i] = x THEN set ELSE Append(set, x)

SetDelete(set, x) == SelectSeq(set, LAMBDA y : y # x)

(* ---------------------------------------------------------------------- *)
(* Live channel registry                                                   *)
(* ---------------------------------------------------------------------- *)
(* res.write on a connection: it reaches an open peer; on a peer that has   *)
(* gone the data is lost, silently or with an exception                    *)
WriteResults == {"ok", "lost", "throw"}

WriteOutcomes(peer) == IF peer = "open" THEN {"ok"} ELSE {"lost", "throw"}

Event(kind, data, call, outcome) ==
  [kind |-> kind, data |-> data, call |-> call, ok |-> outcome = "ok"]

Logged(chs, c, ev) == [chs EXCEPT ![c].log = Append(@, ev)]

(* QueryStation trimming the id it is given *)
QueryStation_Trim(q) == IF IsNullish(q) THEN <<"unknown">> ELSE Trim(ToStr(q))

(* app.get("/api/sse"): String(req.query.stationId ?? "unknown") *)
QueryStation(q) == IF IsNullish(q) THEN <<"unknown">> ELSE ToStr(q)

(* app.get("/api/stream/station/:id"): String(req.params.id) *)
PathStation(id) == ToStr(id)

(* openSSE with the hello left to a later write *)
openSSE_NoHello(stationId, peer, outcome) ==
  LET c == Len(chans) + 1
      isNew == stationId \notin DOMAIN channels
      sid == IF isNew THEN c ELSE channels[stationId]
  IN /\ outcome \in WriteOutcomes(peer)
     /\ channels' = IF isNew THEN Put(channels, stationId, sid) ELSE channels
     /\ sets' = IF isNew THEN Put(sets, sid, <<c>>)
                ELSE [sets EXCEPT ![sid] = SetAdd(@, c)]
     /\ chans' = Append(chans,
          [station |-> stationId, set |-> sid, peer |-> peer,
           timer |-> TRUE, onClose |-> TRUE, closed |-> FALSE, log |-> <<>>])

(* openSSE(res, stationId) on a new connection whose peer is in state peer; *)
(* outcome is what the hello write does.  An exception from the write       *)
(* leaves the handler before the timer and the close listener are set.      *)
openSSE(stationId, peer, outcome) ==
  LET c == Len(chans) + 1
      isNew == stationId \notin DOMAIN channels
      sid == IF isNew THEN c ELSE channels[stationId]
      installed == outcome # "throw"
  IN /\ outcome \in WriteOutcomes(peer)
     /\ channels' = IF isNew THEN Put(channels, stationId, sid) ELSE channels
     /\ sets' = IF isNew THEN Put(sets, sid, <<c>>)
                ELSE [sets EXCEPT ![sid] = SetAdd(@, c)]
     /\ chans' = Append(chans,
          [station |-> stationId, set |-> sid, peer |-> peer,
           timer |-> installed, onClose |-> installed, closed |-> FALSE,
           log |-> << Event("hello", Put(<<>>, <<"stationId">>, Str(stationId)), 0, outcome) >>])

SubscribeQuery(q, peer, outcome) ==
  /\ ~crashed
  /\ openSSE(QueryStation(q), peer, outcome)
  /\ UNCHANGED <<now, store, calls, crashed, hist, sims, live, smooth>>

SubscribePath(id, peer, outcome) ==
  /\ ~crashed
  /\ openSSE(PathStation(id), peer, outcome)
  /\ UNCHANGED <<now, store, calls, crashed, hist, sims, live, smooth>>

(* the peer of a connection goes away; its close event is then pending *)
PeerGone(c) ==
  /\ ~crashed
  /\ chans[c].peer = "open"
  /\ chans' = [chans EXCEPT ![c].peer = "gone"]
  /\ UNCHANGED <<now, store, channels, sets, calls, crashed, hist, sims, live, smooth>>

(* OnClose without the removal of the emptied station entry *)
OnClose_KeepEntry(c) ==
  /\ ~crashed
  /\ chans[c].onClose
  /\ chans[c].peer = "gone"
  /\ sets' = [sets EXCEPT ![chans[c].set] = SetDelete(@, c)]
  /\ chans' = [chans EXCEPT ![c].timer = FALSE, ![c].onClose = FALSE,
                            ![c].closed = TRUE]
  /\ UNCHANGED <<now, store, channels, calls, crashed, hist, sims, live, smooth>>

(* res.req.on("close", ...): the listener runs once, after the peer has gone *)
OnClose(c) ==
  LET sid == chans[c].set
      stationId == chans[c].station
      set == SetDelete(sets[sid], c)
  IN /\ ~crashed
     /\ chans[c].onClose
     /\ chans[c].peer = "gone"
     /\ sets' = [sets EXCEPT ![sid] = set]
     /\ channels' = IF Len(set) = 0 THEN MapDelete(channels, stationId) ELSE channels
     /\ chans' = [chans EXCEPT ![c].timer = FALSE, ![c].onClose = FALSE,
                               ![c].closed = TRUE]
     /\ UNCHANGED <<now, store, calls, crashed, hist, sims, live, smooth>>

Pings(c) == Len(SelectSeq(chans[c].log, LAMBDA e : e.kind = "ping"))

(* setInterval(() => res.write(":\n\n"), 15000): one firing of the timer;  *)
(* an exception in the callback is uncaught                                *)
KeepAlive(c, outcome) ==
  /\ ~crashed
  /\ chans[c].timer
  /\ outcome \in WriteOutcomes(chans[c].peer)
  /\ chans' = Logged(chans, c, Event("ping", <<>>, 0, outcome))
  /\ crashed' = (outcome = "throw")
  /\ UNCHANGED <<now, store, channels, sets, calls, hist, sims, live, smooth>>

(* BroadcastLoop with the try around the loop: an exception ends the loop *)
RECURSIVE BroadcastLoop_Abort(_, _, _, _, _, _)
BroadcastLoop_Abort(chs, set, event, data, call, out) ==
  IF set = <<>> THEN chs
  ELSE LET c == Head(set)
           written == Logged(chs, c, Event(event, data, call, out[c]))
       IN IF out[c] = "throw" THEN written
          ELSE BroadcastLoop_Abort(written, Tail(set), event, data, call, out)

(* the loop of sseBroadcast over the subscriber set; out gives the outcome *)
(* of the writes to each channel; an exception is caught per channel       *)
RECURSIVE BroadcastLoop(_, _, _, _, _, _)
BroadcastLoop(chs, set, event, data, call, out) ==
  IF set = <<>> THEN chs
  ELSE LET c == Head(set)
       IN BroadcastLoop(Logged(chs, c, Event(event, data, call, out[c])),
                        Tail(set), event, data, call, out)

(* the channels of every station, in registration order *)
AllChannels == SelectSeq([c \in 1..Len(chans) |-> c],
                         LAMBDA c : \E i \in 1..Len(sets[chans[c].set]) : sets[chans[c].set][i] = c)

(* sseBroadcast writing to the channels of every station *)
sseBroadcast_AllStations(chs, stationId, event, data, call, out) ==
  BroadcastLoop(chs, AllChannels, event, data, call, out)

(* function sseBroadcast(stationId, event, payload) *)
sseBroadcast(chs, stationId, event, data, call, out) ==
  IF stationId \notin DOMAIN channels THEN chs
  ELSE BroadcastLoop(chs, sets[channels[stationId]], event, data, call, out)

(* the outcomes the writes of one broadcast can have *)
Outcomes == [1..Len(chans) -> WriteResults]

Possible(out) == \A c \in 1..Len(chans) : out[c] \in WriteOutcomes(chans[c].peer)

(* ---------------------------------------------------------------------- *)
(* POST /api/telemetry                                                     *)
(* ---------------------------------------------------------------------- *)
(* BuildSnapshot folding the rows over the values the table holds for the *)
(* station                                                                 *)
BuildSnapshot_Merged(stationId, rows, t) ==
  SnapshotFold(Put(Put(<<>>, <<"stationId">>, Str(stationId)), <<"ts">>, Iso(t)),
               SelectSeq(store, LAMBDA r : r.stationId = stationId) \o rows)

(* the snapshot of a batch, built at instant t *)
BuildSnapshot(stationId, rows, t) ==
  SnapshotFold(Put(Put(<<>>, <<"stationId">>, Str(stationId)), <<"ts">>, Iso(t)), rows)

(* a call of the handler; body, trace and at (the instant the call arrived *)
(* at) are not in the code                                                 *)
Call(body, pc, stationId, rows, status, error, inserted, trace) ==
  [body |-> body, pc |-> pc, stationId |-> stationId, rows |-> rows, status |-> status,
   error |-> error, inserted |-> inserted, trace |-> trace, at |-> now]

(* the handler up to its first await: validation, normalisation, and the   *)
(* createMany request                                                      *)
IngestStart(body) ==
  LET stationId == StationOf(body)
      rows == Normalize(body, now)
  IN /\ ~crashed
     /\ calls' = Append(calls,
          IF stationId = <<>>
          THEN Call(body, "done", stationId, <<>>, 400, "stationId required", 0, <<"responded">>)
          ELSE IF Len(rows) = 0
          THEN Call(body, "done", stationId, rows, 400, "no metrics", 0, <<"responded">>)
          ELSE Call(body, "awaitWrite", stationId, rows, 0, "", 0, <<>>))
     /\ UNCHANGED <<now, store, channels, sets, chans, crashed, hist, sims, live, smooth>>

(* the table stores instants: a row with an invalid Date cannot be written *)
Storable(rows) == \A i \in 1..Len(rows) : rows[i].time.t = "date"

StoredRow(r, src) ==
  [time |-> r.time.ms, stationId |-> r.stationId, deviceId |-> r.deviceId,
   k |-> r.k, v |-> r.v, src |-> src]

(* the rows of a batch without those equal to an earlier row of the batch *)
RECURSIVE Dedup(_)
Dedup(rows) ==
  IF rows = <<>> THEN <<>>
  ELSE LET rest == Dedup(SubSeq(rows, 1, Len(rows) - 1))
           last == rows[Len(rows)]
       IN IF \E i \in 1..Len(rest) : rest[i] = last THEN rest ELSE Append(rest, last)

(* StoreCommit as createMany({ data: rows, skipDuplicates: true }) *)
StoreCommit_SkipDuplicates(id) ==
  /\ ~crashed
  /\ calls[id].pc = "awaitWrite"
  /\ Storable(calls[id].rows)
  /\ store' = store \o Dedup([i \in 1..Len(calls[id].rows) |-> StoredRow(calls[id].rows[i], id)])
  /\ calls' = [calls EXCEPT ![id].pc = "written", ![id].trace = Append(@, "persisted")]
  /\ UNCHANGED <<now, channels, sets, chans, crashed, hist, sims, live, smooth>>

(* prisma.telemetry.createMany({ data: rows }) executes: the whole batch is *)
(* inserted                                                                *)
StoreCommit(id) ==
  /\ ~crashed
  /\ calls[id].pc = "awaitWrite"
  /\ Storable(calls[id].rows)
  /\ store' = store \o [i \in 1..Len(calls[id].rows) |-> StoredRow(calls[id].rows[i], id)]
  /\ calls' = [calls EXCEPT ![id].pc = "written", ![id].trace = Append(@, "persisted")]
  /\ UNCHANGED <<now, channels, sets, chans, crashed, hist, sims, live, smooth>>

(* StoreFail with the rejection taken for a resolution *)
StoreFail_Resolves(id) ==
  /\ ~crashed
  /\ calls[id].pc = "awaitWrite"
  /\ calls' = [calls EXCEPT ![id].pc = "written"]
  /\ UNCHANGED <<now, store, channels, sets, chans, crashed, hist, sims, live, smooth>>

(* createMany rejects: nothing is inserted *)
StoreFail(id) ==
  /\ ~crashed
  /\ calls[id].pc = "awaitWrite"
  /\ calls' = [calls EXCEPT ![id].pc = "failed"]
  /\ UNCHANGED <<now, store, channels, sets, chans, crashed, hist, sims, live, smooth>>

(* IngestResume run before the write has completed *)
IngestResume_Early(id, out) ==
  LET call == calls[id]
      snapshot == BuildSnapshot(call.stationId, call.rows, now)
  IN /\ ~crashed
     /\ call.pc = "awaitWrite"
     /\ Possible(out)
     /\ chans' = sseBroadcast(chans, call.stationId, "telemetry", snapshot, id, out)
     /\ calls' = [calls EXCEPT ![id].pc = "done", ![id].status = 201,
                               ![id].inserted = Len(call.rows),
                               ![id].trace = @ \o <<"published", "responded">>]
     /\ UNCHANGED <<now, store, channels, sets, crashed, hist, sims, live, smooth>>

(* IngestResume unsubscribing the channels whose write threw *)
IngestResume_DropFailed(id, out) ==
  LET call == calls[id]
      snapshot == BuildSnapshot(call.stationId, call.rows, now)
  IN /\ ~crashed
     /\ call.pc = "written"
     /\ Possible(out)
     /\ chans' = sseBroadcast(chans, call.stationId, "telemetry", snapshot, id, out)
     /\ sets' = IF call.stationId \in DOMAIN channels
                THEN [sets EXCEPT ![channels[call.stationId]] =
                        SelectSeq(@, LAMBDA c : out[c] # "throw")]
                ELSE sets
     /\ calls' = [calls EXCEPT ![id].pc = "done", ![id].status = 201,
                               ![id].inserted = Len(call.rows),
                               ![id].trace = @ \o <<"published", "responded">>]
     /\ UNCHANGED <<now, store, channels, crashed, hist, sims, live, smooth>>

(* the handler after the await resolved: snapshot, fan-out, 201 response *)
IngestResume(id, out) ==
  LET call == calls[id]
      snapshot == BuildSnapshot(call.stationId, call.rows, now)
  IN /\ ~crashed
     /\ call.pc = "written"
     /\ Possible(out)
     /\ chans' = sseBroadcast(chans, call.stationId, "telemetry", snapshot, id, out)
     /\ calls' = [calls EXCEPT ![id].pc = "done", ![id].status = 201,
                               ![id].inserted = Len(call.rows),
                               ![id].trace = @ \o <<"published", "responded">>]
     /\ UNCHANGED <<now, store, channels, sets, crashed, hist, sims, live, smooth>>

(* IngestCatch of a handler without try: the rejection is never handled *)
IngestCatch_Uncaught(id) ==
  /\ ~crashed
  /\ calls[id].pc = "failed"
  /\ calls' = [calls EXCEPT ![id].pc = "done"]
  /\ crashed' = TRUE
  /\ UNCHANGED <<now, store, channels, sets, chans, hist, sims, live, smooth>>

(* the handler after the await rejected: the catch block answers 500 *)
IngestCatch(id) ==
  /\ ~crashed
  /\ calls[id].pc = "failed"
  /\ calls' = [calls EXCEPT ![id].pc = "done", ![id].status = 500,
                            ![id].error = "ingest failed",
                            ![id].trace = Append(@, "responded")]
  /\ UNCHANGED <<now, store, channels, sets, chans, crashed, hist, sims, live, smooth>>

(* time passes *)
Tick(d) ==
  /\ ~crashed
  /\ now' = now + d
  /\ UNCHANGED <<store, channels, sets, chans, calls, crashed, hist, sims, live, smooth>>

(* ---------------------------------------------------------------------- *)
(* GET /api/telemetry/:stationId (bucketed history)                        *)
(* ---------------------------------------------------------------------- *)
(* Math.min and Math.max: NaN if an argument is NaN *)
MathMin(a, b) ==
  IF a = NaN \/ b = NaN THEN NaN ELSE IF a.n <= b.n THEN a ELSE b

MathMax(a, b) ==
  IF a = NaN \/ b = NaN THEN NaN ELSE IF a.n >= b.n THEN a ELSE b

(* Math.max(1, Math.min(hi, Number(q ?? dflt))) *)
ClampParam(q, dflt, hi) ==
  MathMax(Num(1), MathMin(Num(hi), ToNumber(IF IsNullish(q) THEN Num(dflt) ELSE q)))

(* new Date(now.getTime() - minutes * 60_000) *)
FromOf(t, minutes) ==
  IF minutes = NaN THEN InvalidDate ELSE DateOf(t - minutes.n * 60000)

(* the call made last; not in the code are prev, the answer of the call    *)
(* before it when the viewer repeated that call, and after, the ingestion  *)
(* calls that had been answered when this call arrived                     *)
NoQuery ==
  [pc |-> "idle", stationId |-> <<>>, minutes |-> Num(0), bucketSec |-> Num(0),
   now |-> 0, from |-> InvalidDate, rows |-> <<>>, points |-> <<>>, status |-> 0,
   error |-> "", prev |-> <<>>, after |-> {}]

AnsweredCalls == {id \in 1..Len(calls) : calls[id].pc = "done"}

(* the handler up to its await: parameters, window, and the findMany request *)
QueryStart(id, minutesQ, bucketQ) ==
  LET stationId == Trim(IF Truthy(id) THEN ToStr(id) ELSE <<>>)
      minutes == ClampParam(minutesQ, 60, 1440)
      bucketSec == ClampParam(bucketQ, 60, 3600)
  IN /\ ~crashed
     /\ hist.pc # "reading"
     /\ hist' = IF stationId = <<>>
                THEN [NoQuery EXCEPT !.pc = "done", !.status = 400,
                                     !.error = "stationId required"]
                ELSE [NoQuery EXCEPT !.pc = "reading", !.stationId = stationId,
                        !.minutes = minutes, !.bucketSec = bucketSec,
                        !.now = now, !.from = FromOf(now, minutes),
                        !.after = AnsweredCalls]
     /\ UNCHANGED <<now, store, channels, sets, chans, calls, crashed, sims, live, smooth>>

(* the viewer sends the request of the answered call again: the handler up *)
(* to its await, on the same path and query parameters                     *)
QueryAgain ==
  /\ ~crashed
  /\ hist.pc = "done"
  /\ hist.status # 400
  /\ hist' = [NoQuery EXCEPT !.pc = "reading", !.stationId = hist.stationId,
                 !.minutes = hist.minutes, !.bucketSec = hist.bucketSec,
                 !.now = now, !.from = FromOf(now, hist.minutes),
                 !.after = AnsweredCalls,
                 !.prev = << [now |-> hist.now, status |-> hist.status,
                              points |-> hist.points] >>]
  /\ UNCHANGED <<now, store, channels, sets, chans, calls, crashed, sims, live, smooth>>

(* Matching without the stationId of the where clause *)
Matching_AnyStation(stationId, from) ==
  IF from.t # "date" THEN {}
  ELSE {i \in 1..Len(store) : store[i].time >= from.ms}

(* where: { stationId, time: { gte: from } } *)
Matching(stationId, from) ==
  IF from.t # "date" THEN {}
  ELSE {i \in 1..Len(store) : store[i].stationId = stationId /\ store[i].time >= from.ms}

(* TimeOrders for orderBy: { time: "desc" } *)
RECURSIVE TimeOrders_Desc(_)
TimeOrders_Desc(I) ==
  IF I = {} THEN {<<>>}
  ELSE UNION {{<<i>> \o o : o \in TimeOrders_Desc(I \ {i})} :
                i \in {j \in I : \A x \in I : store[j].time >= store[x].time}}

(* orderBy: { time: "asc" }: the orders the table can return the matching   *)
(* rows in; rows of equal time come in any order                           *)
RECURSIVE TimeOrders(_)
TimeOrders(I) ==
  IF I = {} THEN {<<>>}
  ELSE UNION {{<<i>> \o o : o \in TimeOrders(I \ {i})} :
                i \in {j \in I : \A x \in I : store[j].time <= store[x].time}}

(* BucketStart with Math.round in place of Math.floor *)
BucketStart_Round(ms, bucketMs) == ((2 * ms + bucketMs) \div (2 * bucketMs)) * bucketMs

(* Math.floor(new Date(r.time).getTime() / bucketMs) * bucketMs *)
BucketStart(ms, bucketMs) == (ms \div bucketMs) * bucketMs

(* BucketLoop passing over a sample without value: it starts no point *)
RECURSIVE BucketLoop_SkipNull(_, _, _, _)
BucketLoop_SkipNull(groups, o, pos, bucketMs) ==
  IF pos > Len(o) THEN groups
  ELSE LET r == store[o[pos]]
           t == BucketStart(r.time, bucketMs)
           old == IF t \in DOMAIN groups THEN groups[t]
                  ELSE [g |-> Put(<<>>, <<"ts">>, Iso(t)), rows |-> {}]
       IN IF r.v = Null THEN BucketLoop_SkipNull(groups, o, pos + 1, bucketMs)
          ELSE BucketLoop_SkipNull(
                 Put(groups, t, [g |-> Put(old.g, r.k, r.v), rows |-> old.rows \cup {o[pos]}]),
                 o, pos + 1, bucketMs)

(* BucketLoop keeping the first value of a key in a bucket *)
RECURSIVE BucketLoop_KeepFirst(_, _, _, _)
BucketLoop_KeepFirst(groups, o, pos, bucketMs) ==
  IF pos > Len(o) THEN groups
  ELSE LET r == store[o[pos]]
           t == BucketStart(r.time, bucketMs)
           old == IF t \in DOMAIN groups THEN groups[t]
                  ELSE [g |-> Put(<<>>, <<"ts">>, Iso(t)), rows |-> {}]
           g == IF r.v # Null /\ r.k \notin DOMAIN old.g THEN Put(old.g, r.k, r.v) ELSE old.g
       IN BucketLoop_KeepFirst(Put(groups, t, [g |-> g, rows |-> old.rows \cup {o[pos]}]),
                               o, pos + 1, bucketMs)

(* BucketLoop without the test r.v !== null: a sample without value       *)
(* overwrites the value of its key                                         *)
RECURSIVE BucketLoop_NullErases(_, _, _, _)
BucketLoop_NullErases(groups, o, pos, bucketMs) ==
  IF pos > Len(o) THEN groups
  ELSE LET r == store[o[pos]]
           t == BucketStart(r.time, bucketMs)
           old == IF t \in DOMAIN groups THEN groups[t]
                  ELSE [g |-> Put(<<>>, <<"ts">>, Iso(t)), rows |-> {}]
           g == Put(old.g, r.k, r.v)
       IN BucketLoop_NullErases(Put(groups, t, [g |-> g, rows |-> old.rows \cup {o[pos]}]),
                                o, pos + 1, bucketMs)

(* BucketLoop starting every row on a fresh point, without groups.get(t) *)
RECURSIVE BucketLoop_FreshPoint(_, _, _, _)
BucketLoop_FreshPoint(groups, o, pos, bucketMs) ==
  IF pos > Len(o) THEN groups
  ELSE LET r == store[o[pos]]
           t == BucketStart(r.time, bucketMs)
           old == [g |-> Put(<<>>, <<"ts">>, Iso(t)), rows |-> {}]
           g == IF r.v # Null THEN Put(old.g, r.k, r.v) ELSE old.g
       IN BucketLoop_FreshPoint(Put(groups, t, [g |-> g, rows |-> old.rows \cup {o[pos]}]),
                                o, pos + 1, bucketMs)

(* the loop over the rows read, given as the sequence o of their places in *)
(* the table: groups maps a bucket start to its point g; rows (not in the  *)
(* code) records which rows were folded into the point                     *)
RECURSIVE BucketLoop(_, _, _, _)
BucketLoop(groups, o, pos, bucketMs) ==
  IF pos > Len(o) THEN groups
  ELSE LET r == store[o[pos]]
           t == BucketStart(r.time, bucketMs)
           old == IF t \in DOMAIN groups THEN groups[t]
                  ELSE [g |-> Put(<<>>, <<"ts">>, Iso(t)), rows |-> {}]
           g == IF r.v # Null THEN Put(old.g, r.k, r.v) ELSE old.g
       IN BucketLoop(Put(groups, t, [g |-> g, rows |-> old.rows \cup {o[pos]}]),
                     o, pos + 1, bucketMs)

(* Array.from(groups.entries()).sort((a, b) => a[0] - b[0]).map(([, g]) => g) *)
RECURSIVE SortedPoints(_)
SortedPoints(groups) ==
  IF DOMAIN groups = {} THEN <<>>
  ELSE LET t == CHOOSE x \in DOMAIN groups : \A y \in DOMAIN groups : x <= y
       IN <<groups[t]>> \o SortedPoints(MapDelete(groups, t))

BucketPoints(o, bucketSec) ==
  SortedPoints(BucketLoop(EmptyMap, o, 1, bucketSec * 1000))

(* findMany resolves with the rows in order o; the handler buckets them and *)
(* answers 200                                                             *)
(* a bucket width that is not a number makes every bucket start t NaN, and *)
(* new Date(t).toISOString() throws on the first row; with no row the     *)
(* loop does not run                                                       *)
QueryRead(o) ==
  /\ ~crashed
  /\ hist.pc = "reading"
  /\ hist.from.t = "date"
  /\ o \in TimeOrders(Matching(hist.stationId, hist.from))
  /\ hist' = IF hist.bucketSec = NaN
             THEN IF o = <<>>
                  THEN [hist EXCEPT !.pc = "done", !.status = 200, !.rows = o]
                  ELSE [hist EXCEPT !.pc = "done", !.status = 500, !.rows = o,
                                    !.error = "query failed"]
             ELSE [hist EXCEPT !.pc = "done", !.status = 200, !.rows = o,
                               !.points = BucketPoints(o, hist.bucketSec.n)]
  /\ UNCHANGED <<now, store, channels, sets, chans, calls, crashed, sims, live, smooth>>

(* findMany rejects (an invalid from, or the table is unreachable): 500 *)
QueryFail ==
  /\ ~crashed
  /\ hist.pc = "reading"
  /\ hist' = [hist EXCEPT !.pc = "done", !.status = 500, !.error = "query failed"]
  /\ UNCHANGED <<now, store, channels, sets, chans, calls, crashed, sims, live, smooth>>

(* ---------------------------------------------------------------------- *)
(* POST /api/sim/start/:id (demo simulator)                                *)
(* ---------------------------------------------------------------------- *)
(* for (let i = 0; i < 12; i++) *)
SimRounds == 12

(* a run of the detached async loop: its counters, its place in the loop   *)
(* (pc), the batch it asked the table to write, and the instant its sleep  *)
(* ends at                                                                 *)
SimRun(stationId) ==
  [stationId |-> stationId, i |-> 0, pc |-> "loop",
   pass |-> 12, fail |-> 1, suspect |-> 0, packedFg |-> 13, speed |-> 48,
   count |-> 12 + 1 + 0, rows |-> <<>>, wakeAt |-> 0]

(* the handler: it starts the loop and answers { ok: true, stationId } *)
SimStart(id) ==
  /\ ~crashed
  /\ sims' = Append(sims, SimRun(ToStr(id)))
  /\ UNCHANGED <<now, store, channels, sets, chans, calls, crashed, hist, live, smooth>>

SimRow(run, time, k, v) ==
  [time |-> DateOf(time), stationId |-> run.stationId, k |-> k, v |-> v]

(* one pass of the loop up to its await: the random walk (dp, df, ds are   *)
(* the increments drawn, dv the change of speed) and the createMany        *)
(* request                                                                 *)
SimStep(s, dp, df, ds, dv) ==
  LET run == sims[s]
      pass == run.pass + dp
      fail == run.fail + df
      suspect == run.suspect + ds
      speed == MathMax(Num(20), MathMin(Num(60), Num(run.speed + dv))).n
      count == pass + fail + suspect
      packedFg == MathMax(Num(run.packedFg), Num(count)).n
      next == [run EXCEPT !.pass = pass, !.fail = fail, !.suspect = suspect,
                          !.speed = speed, !.count = count, !.packedFg = packedFg]
  IN /\ ~crashed
     /\ run.pc = "loop"
     /\ run.i < SimRounds
     /\ sims' = [sims EXCEPT ![s] =
          [next EXCEPT !.pc = "awaitWrite",
             !.rows = << SimRow(run, now, <<"status">>, Null),
                         SimRow(run, now, <<"speed">>, Num(speed)),
                         SimRow(run, now, <<"count">>, Num(count)),
                         SimRow(run, now, <<"pass">>, Num(pass)),
                         SimRow(run, now, <<"fail">>, Num(fail)),
                         SimRow(run, now, <<"suspect">>, Num(suspect)),
                         SimRow(run, now, <<"packedFg">>, Num(packedFg)) >>]]
     /\ UNCHANGED <<now, store, channels, sets, chans, calls, crashed, hist, live, smooth>>

(* the writer of a row or of an event: call id for an ingestion call,      *)
(* 0 - s for simulator run s                                               *)
SimSrc(s) == 0 - s

(* createMany of the simulator executes *)
SimCommit(s) ==
  /\ ~crashed
  /\ sims[s].pc = "awaitWrite"
  /\ store' = store \o [i \in 1..Len(sims[s].rows) |->
                          LET r == sims[s].rows[i]
                          IN [time |-> r.time.ms, stationId |-> r.stationId,
                              deviceId |-> Null, k |-> r.k, v |-> r.v, src |-> SimSrc(s)]]
  /\ sims' = [sims EXCEPT ![s].pc = "written"]
  /\ UNCHANGED <<now, channels, sets, chans, calls, crashed, hist, live, smooth>>

(* SimFail with the rejection swallowed inside the loop: the pass goes on *)
SimFail_Ignored(s) ==
  /\ ~crashed
  /\ sims[s].pc = "awaitWrite"
  /\ sims' = [sims EXCEPT ![s].pc = "written"]
  /\ UNCHANGED <<now, store, channels, sets, chans, calls, crashed, hist, live, smooth>>

(* createMany of the simulator rejects: the loop ends in its catch *)
SimFail(s) ==
  /\ ~crashed
  /\ sims[s].pc = "awaitWrite"
  /\ sims' = [sims EXCEPT ![s].pc = "failed"]
  /\ UNCHANGED <<now, store, channels, sets, chans, calls, crashed, hist, live, smooth>>

(* the payload of the live update of the simulator *)
SimSnapshot(run, t) ==
  Put(Put(Put(Put(Put(Put(Put(Put(Put(<<>>,
    <<"stationId">>, Str(run.stationId)),
    <<"ts">>, Iso(t)),
    <<"status">>, Str(<<"RUNNING">>)),
    <<"speed">>, Num(run.speed)),
    <<"count">>, Num(run.count)),
    <<"pass">>, Num(run.pass)),
    <<"fail">>, Num(run.fail)),
    <<"suspect">>, Num(run.suspect)),
    <<"packedFg">>, Num(run.packedFg))

(* after the await: the live update, then the one-second sleep *)
SimPublish(s, out) ==
  /\ ~crashed
  /\ sims[s].pc = "written"
  /\ Possible(out)
  /\ chans' = sseBroadcast(chans, sims[s].stationId, "telemetry",
                           SimSnapshot(sims[s], now), SimSrc(s), out)
  /\ sims' = [sims EXCEPT ![s].pc = "sleep", ![s].wakeAt = now + 1000]
  /\ UNCHANGED <<now, store, channels, sets, calls, crashed, hist, live, smooth>>

(* the sleep ends: i++ and the loop test *)
SimWake(s) ==
  /\ ~crashed
  /\ sims[s].pc = "sleep"
  /\ now >= sims[s].wakeAt
  /\ sims' = [sims EXCEPT ![s].i = @ + 1,
                          ![s].pc = IF sims[s].i + 1 < SimRounds THEN "loop" ELSE "done"]
  /\ UNCHANGED <<now, store, channels, sets, chans, calls, crashed, hist, live, smooth>>

(* ---------------------------------------------------------------------- *)
(* The wire between a channel and the EventSource of a browser             *)
(* ---------------------------------------------------------------------- *)
(* a value JSON.parse returns for the text of an object *)
JObj(o) == [t |-> "object", o |-> o]

(* JSON.stringify(payload): a member that is undefined is left out, NaN is *)
(* written as null; the text is kept as the value it is the JSON text of  *)
Stringify(payload) ==
  [t |-> "json",
   v |-> JObj([k \in {x \in DOMAIN payload : payload[x] # Undef} |->
                 IF payload[k] = NaN THEN Null ELSE payload[k]])]

(* what a channel carries: the two lines of an event, or a comment line *)
Frame(event, data) == [event |-> event, data |-> data]

(* res.write(":\n\n") *)
Comment == Frame("", Undef)

(* res.write("event: hello\n"); res.write(`data: {"stationId":"${stationId}"}\n\n`) *)
HelloFrame(stationId) == Frame("hello", Stringify(Put(<<>>, <<"stationId">>, Str(stationId))))

(* res.write(`event: ${event}\n`); res.write(`data: ${data}\n\n`) *)
TelemetryFrame(payload) == Frame("telemetry", Stringify(payload))

(* data.name of a parsed value that is not null: undefined unless the      *)
(* value is an object with that member                                     *)
Member(v, name) ==
  IF v.t = "object" THEN (IF name \in DOMAIN v.o THEN v.o[name] ELSE Undef) ELSE Undef

(* toNum(n, fallback) and clampNum(n, fallback): Number(n) if finite *)
toNum(n, fallback) ==
  LET v == ToNumber(n) IN IF v.t = "num" THEN v.n ELSE fallback

(* ---------------------------------------------------------------------- *)
(* The live view (component Live, src/src/server.ts 714-997)               *)
(* ---------------------------------------------------------------------- *)
(* lastSnapRef.current at mount *)
NoSnap ==
  [ts |-> Str(<<>>), status |-> <<"IDLE">>, speed |-> 0, count |-> 0, pass |-> 0,
   fail |-> 0, suspect |-> 0, packedFg |-> 0]

(* the component before its first effect: es is esRef.current with the     *)
(* value of paused its telemetry listener was created with; pending is     *)
(* pendingRef.current (empty for null), timer is throttleTimerRef.current; *)
(* alpha is clamp01(speedEmaAlpha); got (not in the code) are the frames   *)
(* the event source has received, dropped (not in the code) the number of  *)
(* points splice has removed                                               *)
NoLive ==
  [mounted |-> FALSE, es |-> [state |-> "none", paused |-> FALSE],
   streaming |-> FALSE, paused |-> FALSE, error |-> "", lastTs |-> Str(<<>>),
   lastSnap |-> NoSnap, pending |-> <<>>, timer |-> FALSE, points |-> <<>>,
   alpha |-> 1, got |-> <<>>, dropped |-> 0]

(* as Spliced, cutting the end of the list instead of its beginning *)
Spliced_KeepOldest(points, maxPoints) ==
  IF Len(points) > maxPoints
  THEN SubSeq(points, 1, maxPoints)
  ELSE points

(* next.splice(0, next.length - maxPoints) *)
Spliced(points, maxPoints) ==
  IF Len(points) > maxPoints
  THEN SubSeq(points, Len(points) - maxPoints + 1, Len(points))
  ELSE points

(* const flush = () => { ... }: the pending snapshot becomes a point; the  *)
(* speed is a whole number here, which Math.round leaves as it is          *)
flush(v, maxPoints) ==
  IF v.pending = <<>> THEN v
  ELSE LET s == v.pending[1]
           point == [t |-> s.ts, status |-> s.status, count |-> s.count, pass |-> s.pass,
                     fail |-> s.fail, suspect |-> s.suspect, packedFg |-> s.packedFg,
                     speed |-> s.speed]
           next == Append(v.points, point)
       IN [v EXCEPT !.points = Spliced(next, maxPoints), !.pending = <<>>,
                    !.dropped = @ + Len(next) - Len(Spliced(next, maxPoints))]

(* const onTelemetry = (e: MessageEvent) => { ... } on the text d of an    *)
(* event, for the view v at instant t; an exception of JSON.parse or of    *)
(* data.ts on null is caught and ignored                                   *)
onTelemetry(v, d, t) ==
  IF v.es.paused THEN v
  ELSE IF d.t # "json" THEN v
  ELSE IF IsNullish(d.v) THEN v
  ELSE LET data == d.v
           given == Member(data, <<"ts">>)
           ts == IF given.t \in {"str", "iso"} THEN given ELSE Iso(t)
           last == v.lastSnap
           speedRaw == toNum(Member(data, <<"speed">>), last.speed)
           st == Member(data, <<"status">>)
           snapshot ==
             [ts |-> ts,
              status |-> IF IsNullish(st) THEN last.status ELSE ToStr(st),
              speed |-> v.alpha * speedRaw + (1 - v.alpha) * last.speed,
              count |-> toNum(Member(data, <<"count">>), last.count),
              pass |-> toNum(Member(data, <<"pass">>), last.pass),
              fail |-> toNum(Member(data, <<"fail">>), last.fail),
              suspect |-> toNum(Member(data, <<"suspect">>), last.suspect),
              packedFg |-> toNum(Member(data, <<"packedFg">>), last.packedFg)]
       IN IF ts = v.lastTs THEN v
          ELSE [v EXCEPT !.lastTs = ts, !.lastSnap = snapshot, !.pending = <<snapshot>>,
                         !.timer = TRUE]

(* useEffect(() => { ... }, [stationId]) at mount: the event source is     *)
(* created and its listeners are those of the first render                 *)
LiveMount(alpha) ==
  /\ ~live.mounted
  /\ live' = [live EXCEPT !.mounted = TRUE, !.alpha = alpha, !.error = "",
                          !.es = [state |-> "connecting", paused |-> live.paused]]
  /\ UNCHANGED <<now, store, channels, sets, chans, calls, crashed, hist, sims, smooth>>

(* es.onopen = () => setStreaming(true) *)
LiveOpen ==
  /\ live.es.state = "connecting"
  /\ live' = [live EXCEPT !.es.state = "open", !.streaming = TRUE]
  /\ UNCHANGED <<now, store, channels, sets, chans, calls, crashed, hist, sims, smooth>>

(* es.onerror = () => setError("SSE connection error"); the event source   *)
(* connects again                                                          *)
LiveError ==
  /\ live.es.state \in {"connecting", "open"}
  /\ live' = [live EXCEPT !.es.state = "connecting", !.error = "SSE connection error"]
  /\ UNCHANGED <<now, store, channels, sets, chans, calls, crashed, hist, sims, smooth>>

(* the event source receives a frame: a telemetry event goes to            *)
(* onTelemetry, ping and hello go to listeners that do nothing, a comment  *)
(* and an event of another name are not dispatched to any listener         *)
LiveDeliver(frame) ==
  /\ live.es.state = "open"
  /\ live' = [(IF frame.event = "telemetry" THEN onTelemetry(live, frame.data, now) ELSE live)
                EXCEPT !.got = Append(@, frame)]
  /\ UNCHANGED <<now, store, channels, sets, chans, calls, crashed, hist, sims, smooth>>

(* the timer of scheduleFlush fires: flush(); throttleTimerRef.current = null *)
LiveFlush(maxPoints) ==
  /\ live.timer
  /\ live' = [flush(live, maxPoints) EXCEPT !.timer = FALSE]
  /\ UNCHANGED <<now, store, channels, sets, chans, calls, crashed, hist, sims, smooth>>

(* const togglePause = () => setPaused((p) => !p); the button is disabled  *)
(* unless streaming                                                        *)
LiveTogglePause ==
  /\ live.mounted /\ live.streaming
  /\ live' = [live EXCEPT !.paused = ~@]
  /\ UNCHANGED <<now, store, channels, sets, chans, calls, crashed, hist, sims, smooth>>

(* const resetData = () => setPoints([]) *)
LiveReset ==
  /\ live.mounted
  /\ live' = [live EXCEPT !.points = <<>>]
  /\ UNCHANGED <<now, store, channels, sets, chans, calls, crashed, hist, sims, smooth>>

(* const stopStream = () => { ... }: the button is shown while streaming *)
LiveStop ==
  /\ live.mounted /\ live.streaming
  /\ live' = [live EXCEPT !.es.state = "none", !.streaming = FALSE]
  /\ UNCHANGED <<now, store, channels, sets, chans, calls, crashed, hist, sims, smooth>>

(* const startStream = () => { ... }: the button is shown while not        *)
(* streaming; the listeners are those of the render the button was made in *)
LiveStart ==
  /\ live.mounted /\ ~live.streaming
  /\ live' = [live EXCEPT !.es = [state |-> "connecting", paused |-> live.paused],
                          !.lastTs = Str(<<>>), !.lastSnap.ts = Str(<<>>)]
  /\ UNCHANGED <<now, store, channels, sets, chans, calls, crashed, hist, sims, smooth>>

(* ---------------------------------------------------------------------- *)
(* The smoothed live view (component Live, web/src/components/Live.tsx)    *)
(* ---------------------------------------------------------------------- *)
(* statusStableReads = 3, the default of the property *)
statusStableReads == 3

(* the component at mount: raw is lastRawRef.current, ema is               *)
(* emaRef.current, status is statusRef.current; es is esRef.current with   *)
(* the value of paused its parseAndIngest was created with; alpha is the   *)
(* clamped emaAlpha; got (not in the code) are the frames the event source *)
(* has received, read (not in the code) the payloads updateRaw was called  *)
(* with                                                                    *)
SmoothAt(t, alpha) ==
  [es |-> [state |-> "none", paused |-> FALSE],
   streaming |-> FALSE, paused |-> FALSE, error |-> "",
   raw |-> [ts |-> Num(t), status |-> Str(<<"IDLE">>), speed |-> 0, count |-> 0, pass |-> 0,
            fail |-> 0, suspect |-> 0, packedFg |-> 0],
   ema |-> [speed |-> 0, count |-> 0, pass |-> 0, fail |-> 0, suspect |-> 0, packedFg |-> 0],
   status |-> [current |-> Str(<<"IDLE">>), candidate |-> Null, streak |-> 0],
   points |-> <<>>, alpha |-> alpha, got |-> <<>>, read |-> <<>>]

NoSmooth == SmoothAt(T0, 1)

(* new Date(ts).getTime() of a ts that is truthy: the instant of an ISO    *)
(* text, the number itself, NaN for other text                             *)
GetTime(ts) ==
  CASE ts.t = "iso" -> Num(ts.ms)
    [] ts.t = "num" -> ts
    [] OTHER -> NaN

(* Math.max(0, r.x + (Math.random() < p ? 1 : 0)) with the draw d in {0, 1} *)
Drifted(x, d) == IF x + d > 0 THEN x + d ELSE 0

(* as updateRaw, with a new candidate taking over the streak of the one it *)
(* replaces                                                                *)
updateRaw_KeepStreak(v, payload, draws, t) ==
  LET r == v.raw
      given == Member(payload, <<"ts">>)
      counter(name, x, d) ==
        IF Member(payload, name) # Undef THEN toNum(Member(payload, name), x) ELSE Drifted(x, d)
      st == Member(payload, <<"status">>)
      incoming == IF IsNullish(st) THEN r.status ELSE st
      s == v.status
      status ==
        IF incoming # s.current
        THEN IF s.candidate = incoming
             THEN IF s.streak + 1 >= statusStableReads
                  THEN [current |-> incoming, candidate |-> Null, streak |-> 0]
                  ELSE [s EXCEPT !.streak = @ + 1]
             ELSE [s EXCEPT !.candidate = incoming, !.streak = @ + 1]
        ELSE [s EXCEPT !.candidate = Null, !.streak = 0]
  IN [v EXCEPT
        !.raw = [ts |-> IF Truthy(given) THEN GetTime(given) ELSE Num(t),
                 status |-> status.current,
                 speed |-> toNum(Member(payload, <<"speed">>), r.speed),
                 count |-> toNum(Member(payload, <<"count">>), r.count),
                 pass |-> counter(<<"pass">>, r.pass, draws[1]),
                 fail |-> counter(<<"fail">>, r.fail, draws[2]),
                 suspect |-> counter(<<"suspect">>, r.suspect, draws[3]),
                 packedFg |-> counter(<<"packedFg">>, r.packedFg, draws[4])],
        !.status = status,
        !.read = Append(@, payload)]

(* function updateRaw(payload) for a payload that is not null, at instant  *)
(* t, with the draws <<dp, df, ds, dg>> of Math.random                     *)
updateRaw(v, payload, draws, t) ==
  LET r == v.raw
      given == Member(payload, <<"ts">>)
      counter(name, x, d) ==
        IF Member(payload, name) # Undef THEN toNum(Member(payload, name), x) ELSE Drifted(x, d)
      st == Member(payload, <<"status">>)
      incoming == IF IsNullish(st) THEN r.status ELSE st
      s == v.status
      status ==
        IF incoming # s.current
        THEN IF s.candidate = incoming
             THEN IF s.streak + 1 >= statusStableReads
                  THEN [current |-> incoming, candidate |-> Null, streak |-> 0]
                  ELSE [s EXCEPT !.streak = @ + 1]
             ELSE [s EXCEPT !.candidate = incoming, !.streak = 1]
        ELSE [s EXCEPT !.candidate = Null, !.streak = 0]
  IN [v EXCEPT
        !.raw = [ts |-> IF Truthy(given) THEN GetTime(given) ELSE Num(t),
                 status |-> status.current,
                 speed |-> toNum(Member(payload, <<"speed">>), r.speed),
                 count |-> toNum(Member(payload, <<"count">>), r.count),
                 pass |-> counter(<<"pass">>, r.pass, draws[1]),
                 fail |-> counter(<<"fail">>, r.fail, draws[2]),
                 suspect |-> counter(<<"suspect">>, r.suspect, draws[3]),
                 packedFg |-> counter(<<"packedFg">>, r.packedFg, draws[4])],
        !.status = status,
        !.read = Append(@, payload)]

(* as parseAndIngest, with an exception of JSON.parse reported as an error *)
parseAndIngest_Reports(v, d, draws, t) ==
  IF v.es.paused THEN v
  ELSE IF d = Str(<<>>) \/ d = Undef THEN v
  ELSE IF d.t # "json" THEN [v EXCEPT !.error = "SyntaxError"]
  ELSE IF IsNullish(d.v) THEN [v EXCEPT !.error = "TypeError"]
  ELSE updateRaw(v, d.v, draws, t)

(* function parseAndIngest(ev) on the text d of an event: empty data and   *)
(* an exception of JSON.parse return, an exception of updateRaw (payload.ts *)
(* of null) is caught by the outer catch, which sets the error             *)
parseAndIngest(v, d, draws, t) ==
  IF v.es.paused THEN v
  ELSE IF d = Str(<<>>) \/ d = Undef THEN v
  ELSE IF d.t # "json" THEN v
  ELSE IF IsNullish(d.v) THEN [v EXCEPT !.error = "TypeError"]
  ELSE updateRaw(v, d.v, draws, t)

(* as Ingested, with a listener for hello as well *)
Ingested_Hello == {"telemetry", "tick", "data", "message", "hello"}

(* the names startStream listens to with parseAndIngest: telemetry, tick,  *)
(* data and the default event                                              *)
Ingested == {"telemetry", "tick", "data", "message"}

(* const startStream = () => { ... } *)
SmoothStart ==
  /\ ~smooth.streaming /\ smooth.es.state = "none"
  /\ smooth' = [smooth EXCEPT !.error = "",
                              !.es = [state |-> "connecting", paused |-> smooth.paused]]
  /\ UNCHANGED <<now, store, channels, sets, chans, calls, crashed, hist, sims, live>>

(* es.onopen = () => setStreaming(true) *)
SmoothOpen ==
  /\ smooth.es.state = "connecting"
  /\ smooth' = [smooth EXCEPT !.es.state = "open", !.streaming = TRUE]
  /\ UNCHANGED <<now, store, channels, sets, chans, calls, crashed, hist, sims, live>>

(* es.onerror = () => setError("SSE connection error."); the event source  *)
(* connects again                                                          *)
SmoothError ==
  /\ smooth.es.state \in {"connecting", "open"}
  /\ smooth' = [smooth EXCEPT !.es.state = "connecting", !.error = "SSE connection error."]
  /\ UNCHANGED <<now, store, channels, sets, chans, calls, crashed, hist, sims, live>>

(* the event source receives a frame: an event of a name in Ingested goes  *)
(* to parseAndIngest; hello has no listener, a comment dispatches nothing  *)
SmoothDeliver(frame, draws) ==
  /\ smooth.es.state = "open"
  /\ smooth' = [(IF frame.event \in Ingested
                 THEN parseAndIngest(smooth, frame.data, draws, now) ELSE smooth)
                  EXCEPT !.got = Append(@, frame)]
  /\ UNCHANGED <<now, store, channels, sets, chans, calls, crashed, hist, sims, live>>

(* the callback of setInterval(..., sampleEveryMs): one smoothed point per *)
(* period while streaming and not paused; the averages are whole numbers   *)
(* here, which Math.round leaves as they are                               *)
SmoothSample(maxPoints) ==
  /\ smooth.streaming /\ ~smooth.paused
  /\ LET r == smooth.raw
         a == smooth.alpha
         e == [k \in DOMAIN smooth.ema |-> a * r[k] + (1 - a) * smooth.ema[k]]
         point == [t |-> IF Truthy(r.ts) THEN r.ts ELSE Num(now), status |-> r.status,
                   speed |-> e.speed, count |-> e.count, pass |-> e.pass, fail |-> e.fail,
                   suspect |-> e.suspect, packedFg |-> e.packedFg]
     IN smooth' = [smooth EXCEPT !.ema = e,
                                 !.points = Spliced(Append(@, point), maxPoints)]
  /\ UNCHANGED <<now, store, channels, sets, chans, calls, crashed, hist, sims, live>>

(* const togglePause = () => setPaused((p) => !p); disabled unless streaming *)
SmoothTogglePause ==
  /\ smooth.streaming
  /\ smooth' = [smooth EXCEPT !.paused = ~@]
  /\ UNCHANGED <<now, store, channels, sets, chans, calls, crashed, hist, sims, live>>

(* const resetData = () => setPoints([]) *)
SmoothReset ==
  /\ smooth' = [smooth EXCEPT !.points = <<>>]
  /\ UNCHANGED <<now, store, channels, sets, chans, calls, crashed, hist, sims, live>>

(* const stopStream = () => { ... }: the button is shown while streaming *)
SmoothStop ==
  /\ smooth.streaming
  /\ smooth' = [smooth EXCEPT !.es.state = "none", !.streaming = FALSE]
  /\ UNCHANGED <<now, store, channels, sets, chans, calls, crashed, hist, sims, live>>


(* ---------------------------------------------------------------------- *)
(* The server: live channels and ingestion                                 *)
(* ---------------------------------------------------------------------- *)
Init ==
  /\ now = T0
  /\ store = <<>>
  /\ channels = EmptyMap
  /\ sets = EmptyMap
  /\ chans = <<>>
  /\ calls = <<>>
  /\ crashed = FALSE
  /\ hist = NoQuery
  /\ sims = <<>>
  /\ live = NoLive
  /\ smooth = NoSmooth

S1 == <<"S1">>

S2 == <<"S2">>

EmptyBody ==
  [stationId |-> Undef, deviceId |-> Undef, time |-> Undef, events |-> Undef,
   k |-> Undef, v |-> Undef, fields |-> <<>>]

Flat(stationId, fields) == [EmptyBody EXCEPT !.stationId = stationId, !.fields = fields]

Field(name, value) == <<name, value>>

(* station ids the viewers subscribe with, by route *)
QueryIds == {Str(S1)}

PathIds == {Str(S1), Str(S2)}

(* request bodies of the producers in the live-channel specifications *)
LiveBodies ==
  { Flat(Str(S1), << Field(<<"pass">>, Num(5)), Field(<<"temp">>, Num(7)) >>),
    Flat(Str(<<" ", "S2">>), << Field(<<"speed">>, Num(7)) >>),
    Flat(Undef, << Field(<<"pass">>, Num(5)) >>) }

(* bounds of the full server specification *)
MaxChans == 1

MaxCalls == 1

MaxPings == 1

Next ==
  \/ \E q \in QueryIds, peer \in {"open", "gone"}, o \in WriteResults :
       Len(chans) < MaxChans /\ SubscribeQuery(q, peer, o)
  \/ \E id \in PathIds, peer \in {"open", "gone"}, o \in WriteResults :
       Len(chans) < MaxChans /\ SubscribePath(id, peer, o)
  \/ \E c \in 1..Len(chans) : PeerGone(c)
  \/ \E c \in 1..Len(chans) : OnClose(c)
  \/ \E c \in 1..Len(chans), o \in WriteResults :
       Pings(c) < MaxPings /\ KeepAlive(c, o)
  \/ \E body \in LiveBodies : Len(calls) < MaxCalls /\ IngestStart(body)
  \/ \E id \in 1..Len(calls) : StoreCommit(id)
  \/ \E id \in 1..Len(calls) : StoreFail(id)
  \/ \E id \in 1..Len(calls), out \in Outcomes : IngestResume(id, out)
  \/ \E id \in 1..Len(calls) : IngestCatch(id)

Spec == Init /\ [][Next]_vars

(* ---------------------------------------------------------------------- *)
(* Fan-out: the registry and the publishing calls, without the timers      *)
(* ---------------------------------------------------------------------- *)
(* A hello lost without an exception leaves the registry as a delivered    *)
(* hello followed by PeerGone does; Spec covers it.                        *)
FanChans == 2

FanCalls == 1

NextFanout ==
  \/ \E q \in QueryIds, peer \in {"open", "gone"}, o \in {"ok", "throw"} :
       Len(chans) < FanChans /\ SubscribeQuery(q, peer, o)
  \/ \E id \in PathIds, peer \in {"open", "gone"}, o \in {"ok", "throw"} :
       Len(chans) < FanChans /\ SubscribePath(id, peer, o)
  \/ \E c \in 1..Len(chans) : PeerGone(c)
  \/ \E c \in 1..Len(chans) : OnClose(c)
  \/ \E body \in LiveBodies : Len(calls) < FanCalls /\ IngestStart(body)
  \/ \E id \in 1..Len(calls) : StoreCommit(id)
  \/ \E id \in 1..Len(calls) : StoreFail(id)
  \/ \E id \in 1..Len(calls), out \in Outcomes : IngestResume(id, out)
  \/ \E id \in 1..Len(calls) : IngestCatch(id)

SpecFanout == Init /\ [][NextFanout]_vars

(* ---------------------------------------------------------------------- *)
(* Ingestion: the payload shapes, with viewers of station S1               *)
(* ---------------------------------------------------------------------- *)
IngestViewers == 1

IngestCalls == 2

KV(k, v, time) == [EmptyBody EXCEPT !.stationId = Str(S1), !.k = k, !.v = v, !.time = time]

Events(es, fields) ==
  [EmptyBody EXCEPT !.stationId = Str(S1), !.events = Arr(es), !.fields = fields]

Pass5 == << Field(<<"pass">>, Num(5)) >>

(* station ids of the producers: absent, null, empty, blank, padded *)
StationInputs == {Undef, Null, Str(<<>>), Str(<<" ">>), Str(<<" ", "S1", " ">>)}

(* payloads addressed to S1, of the three shapes *)
Payloads ==
  { Flat(Str(S1), << Field(<<"pass">>, Num(5)), Field(<<"temp">>, Num(7)) >>),
    Flat(Str(S1), << Field(<<"pass">>, Num(5)), Field(<<"note">>, Str(<<"x">>)) >>),
    Flat(Str(S1), << Field(<<"note">>, Str(<<"x">>)), Field(<<"n">>, Str(<<"7">>)) >>),
    Events(<< Entry(Str(<<"pass">>), Str(<<"x">>), Undef),
              Entry(Str(<<"fail">>), Str(<<" ", "1", "2">>), Undef) >>, <<>>),
    Events(<< Entry(Str(<<"pass">>), Str(<<"1", "x">>), Undef), Null >>, <<>>),
    Events(<< Entry(Str(<<"pass">>), Null, Undef),
              Entry(Str(<<"pass">>), Num(5), Undef) >>, <<>>),
    Events(<< Entry(Undef, Num(5), Undef) >>, <<>>),
    Events(<< Entry(Str(<<"pass">>), Num(5), Iso(500)),
              Entry(Str(<<"pass">>), Num(5), Iso(500)) >>, <<>>),
    Events(<<>>, Pass5),
    KV(Str(<<"speed">>), Obj, Undef),
    KV(Str(<<"speed">>), Bool(TRUE), Undef),
    KV(Str(<<"speed">>), Num(7), Str(<<"soon">>)) }

Bodies == Payloads \cup {Flat(st, Pass5) : st \in StationInputs}

NextIngest ==
  \/ \E id \in {Str(S1)} : Len(chans) < IngestViewers /\ SubscribePath(id, "open", "ok")
  \/ \E body \in Bodies : Len(calls) < IngestCalls /\ IngestStart(body)
  \/ \E id \in 1..Len(calls) : StoreCommit(id)
  \/ \E id \in 1..Len(calls) : StoreFail(id)
  \/ \E id \in 1..Len(calls), out \in Outcomes : IngestResume(id, out)
  \/ \E id \in 1..Len(calls) : IngestCatch(id)

SpecIngest == Init /\ [][NextIngest]_vars

(* ---------------------------------------------------------------------- *)
(* The live view, fed by the frames of one channel                         *)
(* ---------------------------------------------------------------------- *)
LiveFrameCount == 3

LiveMaxPoints == 2

LiveAlphas == {0, 1}

(* snapshots as the ingestion handler publishes them (lines 243-259) *)
ViewPayloads ==
  { Put(Put(Put(Put(<<>>, <<"stationId">>, Str(S1)), <<"ts">>, Iso(60000)),
            <<"speed">>, Num(5)), <<"status">>, Str(<<"RUNNING">>)),
    Put(Put(Put(<<>>, <<"stationId">>, Str(S1)), <<"ts">>, Iso(61000)),
        <<"pass">>, Num(2)) }

(* an event whose data is not the text of a JSON value, and one whose data *)
(* is the text null                                                        *)
NotJson == Frame("telemetry", Str(<<"oops">>))

NullJson == Frame("telemetry", [t |-> "json", v |-> Null])

ViewFrames ==
  {HelloFrame(S1), Comment, NotJson, NullJson} \cup { TelemetryFrame(p) : p \in ViewPayloads }

NextLive ==
  \/ \E alpha \in LiveAlphas : LiveMount(alpha)
  \/ LiveOpen
  \/ LiveError
  \/ \E frame \in ViewFrames : Len(live.got) < LiveFrameCount /\ LiveDeliver(frame)
  \/ LiveFlush(LiveMaxPoints)
  \/ LiveTogglePause
  \/ LiveReset
  \/ LiveStop
  \/ LiveStart

(* ---------------------------------------------------------------------- *)
(* The smoothed live view, fed by the frames of one channel                *)
(* ---------------------------------------------------------------------- *)
SmoothFrameCount == 3

SmoothMaxPoints == 1

(* the draws of Math.random of one updateRaw, <<dp, df, ds, dg>> *)
SmoothDraws == { <<0, 0, 0, 0>>, <<1, 0, 0, 0>> }

NextSmooth ==
  \/ SmoothStart
  \/ SmoothOpen
  \/ SmoothError
  \/ \E frame \in ViewFrames, draws \in SmoothDraws :
       Len(smooth.got) < SmoothFrameCount /\ SmoothDeliver(frame, draws)
  \/ SmoothSample(SmoothMaxPoints)
  \/ SmoothTogglePause
  \/ SmoothReset
  \/ SmoothStop

(* a page shows one of the two components *)
NextViews ==
  \/ smooth = NoSmooth /\ NextLive
  \/ live = NoLive /\ NextSmooth

SpecViews == Init /\ [][NextViews]_vars

(* ---------------------------------------------------------------------- *)
(* The status of the smoothed view                                         *)
(* ---------------------------------------------------------------------- *)
StatusFrameCount == 5

StatusMaxPoints == 1

(* snapshots carrying each status of the type TelemetryEvent, and one      *)
(* carrying none                                                           *)
StatusPayloads ==
  { Put(Put(<<>>, <<"stationId">>, Str(S1)), <<"status">>, Str(st)) :
      st \in {<<"RUNNING">>, <<"IDLE">>, <<"DOWN">>} }
    \cup { Put(<<>>, <<"stationId">>, Str(S1)) }

NextStatus ==
  \/ SmoothStart
  \/ SmoothOpen
  \/ \E p \in StatusPayloads :
       /\ Len(smooth.got) < StatusFrameCount
       /\ SmoothDeliver(TelemetryFrame(p), <<0, 0, 0, 0>>)
  \/ SmoothSample(StatusMaxPoints)
  \/ SmoothStop

SpecStatus == Init /\ [][NextStatus]_vars

(* ---------------------------------------------------------------------- *)
(* The registry of the alternate revision (src/src/server.backup.ts)       *)
(* ---------------------------------------------------------------------- *)
(* app.get("/api/stream/station/:id") of server.backup.ts on a connection  *)
(* whose peer is in state peer: sseClients (channels and sets) gets the    *)
(* connection, the ping timer and the close listener are set; no hello is  *)
(* written                                                                 *)
BackupStream(id, peer) ==
  LET stationId == ToStr(id)
      c == Len(chans) + 1
      isNew == stationId \notin DOMAIN channels
      sid == IF isNew THEN c ELSE channels[stationId]
  IN /\ ~crashed
     /\ channels' = IF isNew THEN Put(channels, stationId, sid) ELSE channels
     /\ sets' = IF isNew THEN Put(sets, sid, <<c>>)
                ELSE [sets EXCEPT ![sid] = SetAdd(@, c)]
     /\ chans' = Append(chans,
          [station |-> stationId, set |-> sid, peer |-> peer,
           timer |-> TRUE, onClose |-> TRUE, closed |-> FALSE, log |-> <<>>])
     /\ UNCHANGED <<now, store, calls, crashed, hist, sims, live, smooth>>

(* conn.pingTimer = setInterval(() => { try { sseWrite(...) } catch {} }, 25000) *)
BackupPing(c, outcome) ==
  /\ ~crashed
  /\ chans[c].timer
  /\ outcome \in WriteOutcomes(chans[c].peer)
  /\ chans' = Logged(chans, c, Event("ping", <<>>, 0, outcome))
  /\ UNCHANGED <<now, store, channels, sets, calls, crashed, hist, sims, live, smooth>>

(* req.on("close", ...) of server.backup.ts: clearInterval and             *)
(* sseClients.get(stationId)?.delete(conn)                                 *)
BackupClose(c) ==
  /\ ~crashed
  /\ chans[c].onClose
  /\ chans[c].peer = "gone"
  /\ sets' = [sets EXCEPT ![chans[c].set] = SetDelete(@, c)]
  /\ chans' = [chans EXCEPT ![c].timer = FALSE, ![c].onClose = FALSE,
                            ![c].closed = TRUE]
  /\ UNCHANGED <<now, store, channels, calls, crashed, hist, sims, live, smooth>>

BackupChans == 3

NextBackup ==
  \/ \E id \in PathIds, peer \in {"open", "gone"} :
       Len(chans) < BackupChans /\ BackupStream(id, peer)
  \/ \E c \in 1..Len(chans) : PeerGone(c)
  \/ \E c \in 1..Len(chans) : BackupClose(c)
  \/ \E c \in 1..Len(chans), o \in WriteResults :
       Pings(c) < MaxPings /\ BackupPing(c, o)

SpecBackup == Init /\ [][NextBackup]_vars

(* ---------------------------------------------------------------------- *)
(* The rows of the table: ingestion calls and a simulator run              *)
(* ---------------------------------------------------------------------- *)
RowCalls == 2

(* the passes of its loop the run is followed for *)
RowPasses == 1

RowEnd == 2000

(* payloads with a key that is the empty text, in each of the three        *)
(* shapes, next to payloads with and without time                          *)
RowBodies ==
  { KV(Str(<<>>), Num(5), Undef),
    Events(<< Entry(Str(<<>>), Num(5), Undef) >>, <<>>),
    Flat(Str(S1), << Field(<<>>, Num(5)) >>),
    Flat(Str(S1), Pass5),
    Flat(Str(<<" ">>), Pass5),
    KV(Str(<<"speed">>), Num(7), Iso(500)) }

(* the draws of a pass, <<dp, df, ds, dv>> *)
RowDraws == { <<1, 0, 0, 1>> }

NextRows ==
  \/ \E body \in RowBodies : Len(calls) < RowCalls /\ IngestStart(body)
  \/ \E id \in 1..Len(calls) : StoreCommit(id)
  \/ \E id \in 1..Len(calls) : StoreFail(id)
  \/ \E id \in 1..Len(calls), out \in Outcomes : IngestResume(id, out)
  \/ \E id \in 1..Len(calls) : IngestCatch(id)
  \/ \E id \in {Str(S1), Str(<<" ">>)} : sims = <<>> /\ SimStart(id)
  \/ \E s \in 1..Len(sims), d \in RowDraws :
       sims[s].i < RowPasses /\ SimStep(s, d[1], d[2], d[3], d[4])
  \/ \E s \in 1..Len(sims) : SimCommit(s)
  \/ \E s \in 1..Len(sims) : SimFail(s)
  \/ \E s \in 1..Len(sims), out \in Outcomes : SimPublish(s, out)
  \/ \E s \in 1..Len(sims) : SimWake(s)
  \/ \E d \in {1000} : now < RowEnd /\ Tick(d)

SpecRows == Init /\ [][NextRows]_vars

(* ---------------------------------------------------------------------- *)
(* One simulator run through all passes of its loop, with one viewer       *)
(* ---------------------------------------------------------------------- *)
(* the draws of a pass, <<dp, df, ds, dv>>: the run followed counts a pass  *)
(* and speeds up in every pass                                             *)
RunDraws == { <<1, 0, 0, 1>> }

(* the clock moves on while a run sleeps *)
RunTick ==
  /\ \E s \in 1..Len(sims) : sims[s].pc = "sleep" /\ now < sims[s].wakeAt
  /\ Tick(1000)

RunStep == \E s \in 1..Len(sims), d \in RunDraws : SimStep(s, d[1], d[2], d[3], d[4])

RunCommit == \E s \in 1..Len(sims) : SimCommit(s)

RunFail == \E s \in 1..Len(sims) : SimFail(s)

RunPublish == \E s \in 1..Len(sims), out \in Outcomes : SimPublish(s, out)

RunWake == \E s \in 1..Len(sims) : SimWake(s)

NextRun ==
  \/ chans = <<>> /\ SubscribePath(Str(S1), "open", "ok")
  \/ sims = <<>> /\ SimStart(Str(S1))
  \/ RunStep
  \/ RunCommit
  \/ RunFail
  \/ RunPublish
  \/ RunWake
  \/ RunTick

(* the event loop runs every continuation that is ready, the table answers *)
(* every request (it resolves or rejects), and a timer that is due fires   *)
SpecRun ==
  /\ Init /\ [][NextRun]_vars
  /\ WF_vars(RunStep) /\ WF_vars(RunCommit \/ RunFail) /\ WF_vars(RunPublish)
  /\ WF_vars(RunWake) /\ WF_vars(RunTick)

(* ---------------------------------------------------------------------- *)
(* Payload shapes: bodies that carry more than one shape                   *)
(* ---------------------------------------------------------------------- *)
ShapeCalls == 2

Count3 == << Field(<<"count">>, Num(3)) >>

Mixed(events, k, v, fields) ==
  [EmptyBody EXCEPT !.stationId = Str(S1), !.events = events, !.k = k, !.v = v,
                    !.fields = fields]

ShapeBodies ==
  { Mixed(Arr(<< Entry(Str(<<"pass">>), Num(5), Undef) >>), Str(<<"speed">>), Num(7), Count3),
    Mixed(Arr(<<>>), Str(<<"speed">>), Num(7), Count3),
    Mixed(Undef, Str(<<"speed">>), Num(7), Count3),
    Mixed(Undef, Str(<<"speed">>), Null, Count3),
    Mixed(Undef, Str(<<"speed">>), Undef, Count3),
    Mixed(Undef, Num(4), Undef, Count3),
    Mixed(Num(5), Undef, Undef, Count3),
    Mixed(Obj, Str(<<"speed">>), Num(7), Count3),
    [Mixed(Undef, Undef, Undef,
           << Field(<<"pass">>, Num(5)), Field(<<"note">>, Str(<<"x">>)),
              Field(<<"on">>, Bool(TRUE)), Field(<<"n">>, Str(<<"7">>)) >>)
       EXCEPT !.deviceId = Num(3), !.time = Num(0)] }

NextShapes ==
  \/ \E body \in ShapeBodies : Len(calls) < ShapeCalls /\ IngestStart(body)
  \/ \E id \in 1..Len(calls) : StoreCommit(id)
  \/ \E id \in 1..Len(calls) : StoreFail(id)
  \/ \E id \in 1..Len(calls), out \in Outcomes : IngestResume(id, out)
  \/ \E id \in 1..Len(calls) : IngestCatch(id)

SpecShapes == Init /\ [][NextShapes]_vars

(* ---------------------------------------------------------------------- *)
(* History: the bucketed query over a table holding earlier samples        *)
(* ---------------------------------------------------------------------- *)
HistLen == 3

HistNow == 120000

HistTimes == {59999, 60000, 60999, 61000}

Sample(time, stationId, k, v) ==
  [time |-> time, stationId |-> stationId, deviceId |-> Null, k |-> k, v |-> v, src |-> 0]

HistRows ==
  {Sample(t, S1, kv[1], kv[2]) :
     t \in HistTimes,
     kv \in { <<(<<"pass">>), Num(5)>>, <<(<<"pass">>), Num(7)>>, <<(<<"speed">>), Null>> }}
  \cup {Sample(60000, S2, <<"pass">>, Num(9))}

(* the query strings of the viewers: <<minutes, bucket>> *)
HistQueries ==
  { <<Undef, Undef>>, <<Str(<<"1">>), Str(<<"1">>)>>, <<Str(<<"1">>), Str(<<"2">>)>>,
    <<Str(<<"x">>), Undef>> }

HistStations == {Str(S1), Str(<<" ">>)}

InitHistory ==
  /\ now = HistNow
  /\ store \in UNION {[1..n -> HistRows] : n \in 0..HistLen}
  /\ channels = EmptyMap
  /\ sets = EmptyMap
  /\ chans = <<>>
  /\ calls = <<>>
  /\ crashed = FALSE
  /\ hist = NoQuery
  /\ sims = <<>>
  /\ live = NoLive
  /\ smooth = NoSmooth

NextHistory ==
  \/ \E id \in HistStations, q \in HistQueries : QueryStart(id, q[1], q[2])
  \/ \E o \in TimeOrders(Matching(hist.stationId, hist.from)) : QueryRead(o)
  \/ QueryFail

SpecHistory == InitHistory /\ [][NextHistory]_vars

(* ---------------------------------------------------------------------- *)
(* History points: samples with and without a value, and a metric named ts *)
(* ---------------------------------------------------------------------- *)
PointLen == 3

PointTimes == {60000, 60500, 61000}

PointRows ==
  {Sample(t, S1, kv[1], kv[2]) :
     t \in PointTimes,
     kv \in { <<(<<"pass">>), Num(5)>>, <<(<<"pass">>), Null>>, <<(<<"ts">>), Num(7)>> }}
  \cup {Sample(60000, S1, <<"speed">>, Null)}

PointQueries == { <<Str(<<"1">>), Str(<<"1">>)>>, <<Undef, Undef>> }

InitPoints ==
  /\ now = HistNow
  /\ store \in UNION {[1..n -> PointRows] : n \in 0..PointLen}
  /\ channels = EmptyMap
  /\ sets = EmptyMap
  /\ chans = <<>>
  /\ calls = <<>>
  /\ crashed = FALSE
  /\ hist = NoQuery
  /\ sims = <<>>
  /\ live = NoLive
  /\ smooth = NoSmooth

NextPoints ==
  \/ \E q \in PointQueries : QueryStart(Str(S1), q[1], q[2])
  \/ \E o \in TimeOrders(Matching(hist.stationId, hist.from)) : QueryRead(o)
  \/ QueryFail

SpecPoints == InitPoints /\ [][NextPoints]_vars

(* ---------------------------------------------------------------------- *)
(* History parameters: the lookback and bucket values a viewer can send    *)
(* ---------------------------------------------------------------------- *)
ClampLen == 1

(* absent, zero, negative, over the limit, not a number, in range *)
LookbackInputs ==
  {Undef, Str(<<"0">>), Str(<<"-", "5">>), Str(<<"9", "9", "9", "9">>), Str(<<"x">>),
   Str(<<"1">>)}

BucketInputs ==
  {Undef, Str(<<"0">>), Str(<<"-", "5">>), Str(<<"9", "9", "9", "9">>), Str(<<"x">>),
   Str(<<"2">>)}

InitClamp ==
  /\ now = HistNow
  /\ store \in UNION {[1..n -> HistRows] : n \in 0..ClampLen}
  /\ channels = EmptyMap
  /\ sets = EmptyMap
  /\ chans = <<>>
  /\ calls = <<>>
  /\ crashed = FALSE
  /\ hist = NoQuery
  /\ sims = <<>>
  /\ live = NoLive
  /\ smooth = NoSmooth

NextClamp ==
  \/ \E id \in HistStations, m \in LookbackInputs, b \in BucketInputs : QueryStart(id, m, b)
  \/ \E o \in TimeOrders(Matching(hist.stationId, hist.from)) : QueryRead(o)
  \/ QueryFail

SpecClamp == InitClamp /\ [][NextClamp]_vars

(* ---------------------------------------------------------------------- *)
(* Repeated history calls, with viewers subscribed                         *)
(* ---------------------------------------------------------------------- *)
RereadLen == 2

RereadViewers == 1

InitReread ==
  /\ now = HistNow
  /\ store \in UNION {[1..n -> HistRows] : n \in 0..RereadLen}
  /\ channels = EmptyMap
  /\ sets = EmptyMap
  /\ chans = <<>>
  /\ calls = <<>>
  /\ crashed = FALSE
  /\ hist = NoQuery
  /\ sims = <<>>
  /\ live = NoLive
  /\ smooth = NoSmooth

NextReread ==
  \/ \E id \in {Str(S1)} : Len(chans) < RereadViewers /\ SubscribePath(id, "open", "ok")
  \/ \E id \in HistStations, q \in HistQueries : hist.pc = "idle" /\ QueryStart(id, q[1], q[2])
  \/ hist.prev = <<>> /\ QueryAgain
  \/ \E o \in TimeOrders(Matching(hist.stationId, hist.from)) : QueryRead(o)
  \/ QueryFail

SpecReread == InitReread /\ [][NextReread]_vars

(* ---------------------------------------------------------------------- *)
(* Ingestion followed by history: producers, the clock and a viewer        *)
(* ---------------------------------------------------------------------- *)
JourneyCalls == 2

JourneyEnd == 65000

(* the instants the first call can arrive at, and the pace of the producer *)
JourneyStarts == {45000, 55000}

JourneyPace == {10000}

(* flat maps without time, one without station, and one stamped by the    *)
(* producer ahead of the server clock                                      *)
JourneyBodies ==
  { Flat(Str(S1), << Field(<<"pass">>, Num(5)), Field(<<"fail">>, Num(1)) >>),
    Flat(Undef, << Field(<<"pass">>, Num(5)) >>),
    Flat(Str(S1), << Field(<<"pass">>, Num(7)), Field(<<"note">>, Str(<<"x">>)) >>),
    Flat(Str(S2), << Field(<<"pass">>, Num(9)) >>),
    [Flat(Str(S1), << Field(<<"pass">>, Num(9)) >>) EXCEPT !.time = Iso(99000)] }

(* <<minutes, bucket>> of the viewer *)
JourneyQueries == { <<Str(<<"5">>), Str(<<"6", "0">>)>> }

InitJourney ==
  /\ now \in JourneyStarts
  /\ store = <<>>
  /\ channels = EmptyMap
  /\ sets = EmptyMap
  /\ chans = <<>>
  /\ calls = <<>>
  /\ crashed = FALSE
  /\ hist = NoQuery
  /\ sims = <<>>
  /\ live = NoLive
  /\ smooth = NoSmooth

(* the producer sends a call after the call before it was answered and    *)
(* the clock has moved on; the viewer makes one history call               *)
NextJourney ==
  \/ \E body \in JourneyBodies :
       /\ Len(calls) < JourneyCalls
       /\ \A id \in 1..Len(calls) : calls[id].pc = "done" /\ calls[id].at < now
       /\ IngestStart(body)
  \/ \E id \in 1..Len(calls) : StoreCommit(id)
  \/ \E id \in 1..Len(calls) : StoreFail(id)
  \/ \E id \in 1..Len(calls), out \in Outcomes : IngestResume(id, out)
  \/ \E id \in 1..Len(calls) : IngestCatch(id)
  \/ \E d \in JourneyPace : now < JourneyEnd /\ Tick(d)
  \/ \E id \in HistStations, q \in JourneyQueries :
       hist.pc = "idle" /\ QueryStart(id, q[1], q[2])
  \/ \E o \in TimeOrders(Matching(hist.stationId, hist.from)) : QueryRead(o)
  \/ QueryFail

SpecJourney == InitJourney /\ [][NextJourney]_vars

(* ---------------------------------------------------------------------- *)
(* The simulator beside a producer, with viewers                           *)
(* ---------------------------------------------------------------------- *)
SimViewers == 1

SimRuns == 1

SimCalls == 1

(* the passes of its loop a run is followed for *)
SimPasses == 1

SimEnd == 2000

NextSim ==
  \/ \E id \in PathIds : Len(chans) < SimViewers /\ SubscribePath(id, "open", "ok")
  \/ \E id \in {Str(S1)} : Len(sims) < SimRuns /\ SimStart(id)
  \/ \E s \in 1..Len(sims), dp, df, ds \in {0, 1}, dv \in {-1, 1} :
       sims[s].i < SimPasses /\ SimStep(s, dp, df, ds, dv)
  \/ \E s \in 1..Len(sims) : SimCommit(s)
  \/ \E s \in 1..Len(sims) : SimFail(s)
  \/ \E s \in 1..Len(sims), out \in Outcomes : SimPublish(s, out)
  \/ \E s \in 1..Len(sims) : SimWake(s)
  \/ \E d \in {1000} : now < SimEnd /\ Tick(d)
  \/ \E body \in LiveBodies : Len(calls) < SimCalls /\ IngestStart(body)
  \/ \E id \in 1..Len(calls) : StoreCommit(id)
  \/ \E id \in 1..Len(calls) : StoreFail(id)
  \/ \E id \in 1..Len(calls), out \in Outcomes : IngestResume(id, out)
  \/ \E id \in 1..Len(calls) : IngestCatch(id)

SpecSim == Init /\ [][NextSim]_vars

(* ====================================================================== *)
(* Properties                                                              *)
(* ====================================================================== *)
CallIds == 1..Len(calls)

ChanIds == 1..Len(chans)

(* the rows of the table written by call id, and the events of call id in  *)
(* the log of channel c                                                    *)
RowsOf(id) == {i \in 1..Len(store) : store[i].src = id}

EventsOf(c, id) ==
  {i \in 1..Len(chans[c].log) : chans[c].log[i].kind = "telemetry" /\ chans[c].log[i].call = id}

(* call id was answered and neither wrote a row nor published an event *)
NoEffects(id) ==
  /\ calls[id].pc = "done"
  /\ calls[id].trace = <<"responded">>
  /\ RowsOf(id) = {}
  /\ \A c \in ChanIds : EventsOf(c, id) = {}

(* a station id that is absent, null, empty or made of whitespace only *)
BlankStation(x) ==
  \/ x = Undef
  \/ x = Null
  \/ x.t = "str" /\ \A i \in 1..Len(x.s) : x.s[i] = " "

(* C1: an ingestion call whose stationId is absent, null, empty or         *)
(* whitespace-only is answered 400 and has no side effect: it writes no    *)
(* row and publishes no snapshot.                                          *)
C1_BlankStationRejected ==
  \A id \in CallIds :
    BlankStation(calls[id].body.stationId) =>
      /\ calls[id].status = 400
      /\ calls[id].error = "stationId required"
      /\ NoEffects(id)

C1_Witness ==
  \E id \in CallIds :
    /\ calls[id].body.stationId = Str(<<" ">>)
    /\ calls[id].status = 400
    /\ \E c \in ChanIds : chans[c].station = S1 /\ chans[c].peer = "open"
    /\ \E other \in CallIds : calls[other].status = 201

(* the observations a body carries, in the shape the handler reads it in  *)
Observations(body) ==
  IF body.events.t = "arr"
  THEN [i \in 1..Len(body.events.es) |->
          [k |-> Prop(body.events.es[i], "k"), v |-> Prop(body.events.es[i], "v"),
           flat |-> FALSE]]
  ELSE IF body.k # Undef /\ body.v # Undef
  THEN << [k |-> body.k, v |-> body.v, flat |-> FALSE] >>
  ELSE LET fs == SelectSeq(OwnEntries(body), LAMBDA p : p[1] \notin Reserved)
       IN [i \in 1..Len(fs) |-> [k |-> Str(fs[i][1]), v |-> fs[i][2], flat |-> TRUE]]

(* a value that is given and does not coerce to a number *)
Malformed(v) == ~IsNullish(v) /\ v.t # "num" /\ ToNumber(v) = NaN

WellFormed(body) ==
  {i \in 1..Len(Observations(body)) : ~Malformed(Observations(body)[i].v)}

(* C2: an observation whose value is not numeric is dropped and not        *)
(* counted in the persisted total; a call all of whose observations are    *)
(* dropped is answered 400 with no store write and no publish.             *)
C2_MalformedDropped ==
  \A id \in CallIds :
    LET call == calls[id]
        good == Cardinality(WellFormed(call.body))
    IN /\ \A i \in 1..Len(call.rows) : call.rows[i].v # NaN
       /\ Len(call.rows) <= good
       /\ Cardinality(RowsOf(id)) <= good
       /\ call.status = 201 => call.inserted <= good
       /\ (call.pc = "done" /\ call.rows = <<>>) => call.status = 400 /\ NoEffects(id)
       /\ (good = 0 /\ call.pc = "done") => call.status = 400 /\ NoEffects(id)

C2_Witness ==
  /\ \E id \in CallIds :
       /\ calls[id].status = 201
       /\ calls[id].inserted = 1
       /\ Len(Observations(calls[id].body)) = 2
       /\ Cardinality(WellFormed(calls[id].body)) = 1
  /\ \E id \in CallIds :
       /\ ~BlankStation(calls[id].body.stationId)
       /\ Len(Observations(calls[id].body)) > 0
       /\ WellFormed(calls[id].body) = {}
       /\ calls[id].status = 400
  /\ chans # <<>>

(* the observations normalisation accepts: a key, a value that is absent   *)
(* or coerces to a number, and in the flat shape a value that is a number  *)
Accepted(body) ==
  {i \in 1..Len(Observations(body)) :
     LET ob == Observations(body)[i]
     IN /\ ~IsNullish(ob.k)
        /\ ~Malformed(ob.v)
        /\ ob.flat => ob.v.t = "num"}

(* C3: for a successful ingestion call the reported count equals the       *)
(* number of rows the call added to the store and the number of           *)
(* observations normalisation accepted.                                    *)
C3_InsertedCount ==
  \A id \in CallIds :
    calls[id].status = 201 =>
      /\ calls[id].inserted = Cardinality(RowsOf(id))
      /\ calls[id].inserted = Cardinality(Accepted(calls[id].body))

C3_Witness ==
  \E id \in CallIds :
    /\ calls[id].status = 201
    /\ calls[id].inserted = 2
    /\ calls[id].rows[1] = calls[id].rows[2]
    /\ Len(store) > 2

(* the channels registered under a station key *)
RegisteredUnder(stationId) ==
  IF stationId \in DOMAIN channels
  THEN {sets[channels[stationId]][i] : i \in 1..Len(sets[channels[stationId]])}
  ELSE {}

(* the step in which call id publishes and answers *)
Publishes(id) == calls[id].pc = "written" /\ calls'[id].pc = "done"

(* in this step channel c was written exactly one event, of call id *)
WrittenTo(c, id) ==
  /\ Len(chans'[c].log) = Len(chans[c].log) + 1
  /\ SubSeq(chans'[c].log, 1, Len(chans[c].log)) = chans[c].log
  /\ chans'[c].log[Len(chans'[c].log)].kind = "telemetry"
  /\ chans'[c].log[Len(chans'[c].log)].call = id

(* C4: in an ingestion call the batch write completes, then the snapshot   *)
(* is published, then the response is sent; no channel is written a        *)
(* snapshot of a call whose write has not completed or has failed.         *)
C4_PublishAfterPersist ==
  \A id \in CallIds :
    LET call == calls[id]
        published == \E c \in ChanIds : EventsOf(c, id) # {}
    IN /\ published =>
            /\ call.status = 201
            /\ Len(call.rows) > 0
            /\ Cardinality(RowsOf(id)) = Len(call.rows)
       /\ call.status = 201 => call.trace = <<"persisted", "published", "responded">>
       /\ call.status = 500 => RowsOf(id) = {} /\ call.trace = <<"responded">>
       /\ call.pc \in {"awaitWrite", "failed"} => call.trace = <<>>
       /\ call.pc = "written" => call.trace = <<"persisted">>

C4_Witness ==
  /\ \E id \in CallIds, c \in ChanIds :
       /\ calls[id].status = 201
       /\ \E i \in EventsOf(c, id) : chans[c].log[i].ok
  /\ \E c \in ChanIds : chans[c].peer = "open" /\ Len(chans[c].log) = 1

(* C5: a snapshot published for station S is written to every channel      *)
(* registered under S and to no channel of another station; every         *)
(* telemetry event on a channel carries the station id the channel        *)
(* subscribed with.                                                        *)
C5_StationFanout ==
  [][ /\ \A id \in CallIds :
           Publishes(id) =>
             \A c \in ChanIds :
               IF c \in RegisteredUnder(calls[id].stationId)
               THEN WrittenTo(c, id)
               ELSE chans'[c].log = chans[c].log
      /\ \A c \in 1..Len(chans') :
           \A i \in 1..Len(chans'[c].log) :
             chans'[c].log[i].kind = "telemetry" =>
               chans'[c].log[i].data[<<"stationId">>] = Str(chans'[c].station)
    ]_vars

C5_Witness ==
  \E a, b \in ChanIds :
    /\ chans[a].station # chans[b].station
    /\ a \in RegisteredUnder(chans[a].station)
    /\ b \in RegisteredUnder(chans[b].station)
    /\ chans[b].peer = "open"
    /\ \E i \in 1..Len(chans[a].log) : chans[a].log[i].kind = "telemetry" /\ chans[a].log[i].ok
    /\ Len(chans[b].log) = 1

(* C6: for two channels A and B registered under one station, if the write *)
(* to A fails during a publish, B (whose peer is there) still receives the *)
(* event, whatever the order of A and B in the set.                        *)
C6_FailureIsolated ==
  [][ \A id \in CallIds :
        Publishes(id) =>
          \A A, B \in RegisteredUnder(calls[id].stationId) :
            ( /\ A # B
              /\ chans[A].peer = "gone"
              /\ chans[B].peer = "open" )
            => /\ WrittenTo(A, id)
               /\ ~chans'[A].log[Len(chans'[A].log)].ok
               /\ WrittenTo(B, id)
               /\ chans'[B].log[Len(chans'[B].log)].ok
    ]_vars

C6_Witness ==
  \E A, B \in ChanIds, id \in CallIds :
    /\ A < B
    /\ chans[A].set = chans[B].set
    /\ \E i \in EventsOf(A, id) : ~chans[A].log[i].ok
    /\ \E i \in EventsOf(B, id) : chans[B].log[i].ok

(* the step in which the close listener of channel c runs *)
Closes(c) == ~chans[c].closed /\ chans'[c].closed

C8_HelloFirst ==
  \A c \in ChanIds :
    LET log == chans[c].log
    IN /\ log # <<>>
       /\ log[1].kind = "hello"
       /\ log[1].data = Put(<<>>, <<"stationId">>, Str(chans[c].station))
       /\ \A i \in 2..Len(log) : log[i].kind \in {"telemetry", "ping"}
       /\ (\E i \in 1..Len(log) : log[i].ok) => log[1].ok

C8_Witness ==
  \E c \in ChanIds :
    /\ Len(chans[c].log) = 3
    /\ chans[c].log[1].ok
    /\ \E i \in 2..3 : chans[c].log[i].kind = "telemetry" /\ chans[c].log[i].ok
    /\ \E i \in 2..3 : chans[c].log[i].kind = "ping" /\ chans[c].log[i].ok

(* the history call was answered 200 *)
Answered == hist.pc = "done" /\ hist.status = 200

(* the samples of the queried station inside the window [from, now] *)
InWindow ==
  {i \in 1..Len(store) :
     /\ store[i].stationId = hist.stationId
     /\ hist.from.ms <= store[i].time
     /\ store[i].time <= hist.now}

(* the output points sample i was folded into *)
PointsOf(i) == {p \in 1..Len(hist.points) : i \in hist.points[p].rows}

(* floor(t / W) for t in milliseconds and W in seconds *)
BucketIndex(ms, W) == ms \div (W * 1000)

(* C9: bucket alignment: for bucket width W seconds, two samples of the    *)
(* station at times t1 < t2 inside the query window are put in the same    *)
(* output point if and only if floor(t1/W) = floor(t2/W).                  *)
C9_BucketAlignment ==
  Answered =>
    \A i, j \in InWindow :
      store[i].time < store[j].time =>
        /\ Cardinality(PointsOf(i)) = 1
        /\ Cardinality(PointsOf(j)) = 1
        /\ (PointsOf(i) = PointsOf(j)) <=>
             (BucketIndex(store[i].time, hist.bucketSec.n)
                = BucketIndex(store[j].time, hist.bucketSec.n))

C9_Witness ==
  /\ Answered
  /\ hist.bucketSec = Num(1)
  /\ \E i, j, k \in InWindow :
       /\ store[i].time = 60000 /\ store[j].time = 60999 /\ store[k].time = 61000
       /\ PointsOf(i) = PointsOf(j)
       /\ PointsOf(j) # PointsOf(k)

(* sample j is the last sample of its key with a value in its bucket *)
LastOfKey(j) ==
  \A x \in 1..Len(store) :
    ( /\ x # j
      /\ store[x].stationId = store[j].stationId
      /\ store[x].k = store[j].k
      /\ store[x].v # Null
      /\ BucketIndex(store[x].time, hist.bucketSec.n)
           = BucketIndex(store[j].time, hist.bucketSec.n) )
    => store[x].time < store[j].time

(* C10: last write wins within a bucket: for two samples of one key in one *)
(* bucket with t1 < t2 and different values, the sample at t2 being the    *)
(* last of the key in the bucket, the point of the bucket reports the      *)
(* value of the sample at t2 for that key.                                 *)
C10_LastWriteWins ==
  Answered =>
    \A i, j \in InWindow :
      ( /\ store[i].k = store[j].k
        /\ store[i].time < store[j].time
        /\ store[i].v # Null /\ store[j].v # Null
        /\ store[i].v # store[j].v
        /\ BucketIndex(store[i].time, hist.bucketSec.n)
             = BucketIndex(store[j].time, hist.bucketSec.n)
        /\ LastOfKey(j) )
      => \A p \in PointsOf(j) :
           /\ store[j].k \in DOMAIN hist.points[p].g
           /\ hist.points[p].g[store[j].k] = store[j].v

C10_Witness ==
  /\ Answered
  /\ \E i, j \in InWindow :
       /\ i > j
       /\ store[i].k = store[j].k
       /\ store[i].time < store[j].time
       /\ store[i].v = Num(7) /\ store[j].v = Num(5)
       /\ LastOfKey(j)
       /\ \E p \in PointsOf(j) : i \in hist.points[p].rows /\ hist.points[p].g[store[j].k] = Num(5)

(* the history call passed the station check *)
Queried == hist.pc # "idle" /\ hist.status # 400

(* C11: for every requested lookback and bucket value (zero, negative,    *)
(* over the limit, not a number) the history query uses a lookback within *)
(* 1..1440 minutes and a bucket width within 1..3600 seconds, and the     *)
(* window it asks the table for is a valid one, so that no request fails   *)
(* because of these parameters.                                            *)
C11_ParamsClamped ==
  Queried =>
    /\ hist.minutes # NaN /\ hist.minutes.n \in 1..1440
    /\ hist.bucketSec # NaN /\ hist.bucketSec.n \in 1..3600
    /\ hist.from.t = "date"

(* the step in which a repeated history call is answered 200, the call     *)
(* before it having been answered 200 at the same instant                  *)
AnswersAgain ==
  /\ hist.pc = "reading" /\ hist.prev # <<>>
  /\ hist'.pc = "done" /\ hist'.status = 200
  /\ hist.prev[1].status = 200
  /\ hist.prev[1].now = hist.now

(* the points of an answer as the viewer receives them *)
Output(points) == [p \in 1..Len(points) |-> points[p].g]

(* C12: idempotence of read: a history call repeated with the same         *)
(* parameters, the store not having changed, returns the same points with  *)
(* the same values, and a history call changes neither the store nor the   *)
(* subscriber registry.                                                    *)
C12_ReadIdempotent ==
  [][ /\ AnswersAgain => Output(hist'.points) = Output(hist.prev[1].points)
      /\ hist' # hist => store' = store /\ channels' = channels /\ sets' = sets
    ]_vars

(* a body read as a flat map, without time *)
FlatNoTime(body) ==
  /\ body.events.t # "arr"
  /\ ~(body.k # Undef /\ body.v # Undef)
  /\ body.time = Undef

(* the history call arrived after ingestion call id was answered, for the  *)
(* station of that call, and was answered 200                              *)
Follows(id) ==
  /\ Answered
  /\ id \in hist.after
  /\ hist.stationId = calls[id].stationId

(* C13: a successful flat-map call without time writes all its             *)
(* observations with one timestamp, the instant the call arrived at, and   *)
(* reports their number; a following history call whose window contains    *)
(* that instant returns them in exactly one point, which carries the value *)
(* of each key no other call wrote in that bucket; when the station has no *)
(* other sample the answer is that one point with exactly these keys.      *)
C13_FlatOneBucket ==
  \A id \in CallIds :
    LET call == calls[id]
        mine == RowsOf(id)
    IN (FlatNoTime(call.body) /\ call.status = 201) =>
         /\ \A i \in 1..Len(call.rows) : call.rows[i].time = DateOf(call.at)
         /\ \A i \in mine : store[i].time = call.at
         /\ call.inserted = Cardinality(mine)
         /\ call.inserted =
              Cardinality({i \in 1..Len(call.body.fields) : call.body.fields[i][2].t = "num"})
         /\ (Follows(id) /\ hist.from.ms <= call.at /\ call.at <= hist.now) =>
              /\ \E p \in 1..Len(hist.points) :
                   /\ mine \subseteq hist.points[p].rows
                   /\ \A q \in 1..Len(hist.points) :
                        q # p => hist.points[q].rows \cap mine = {}
                   /\ \A i \in mine :
                        (\A x \in hist.points[p].rows \ mine : store[x].k # store[i].k)
                          => /\ store[i].k \in DOMAIN hist.points[p].g
                             /\ hist.points[p].g[store[i].k] = store[i].v
              /\ {i \in 1..Len(store) : store[i].stationId = call.stationId} = mine =>
                   /\ Len(hist.points) = 1
                   /\ DOMAIN hist.points[1].g = {<<"ts">>} \cup {store[i].k : i \in mine}

C13_Witness ==
  \E id \in CallIds :
    /\ calls[id].body = Flat(Str(S1), << Field(<<"pass">>, Num(5)), Field(<<"fail">>, Num(1)) >>)
    /\ calls[id].status = 201
    /\ calls[id].inserted = 2
    /\ Len(store) = 2
    /\ Follows(id)
    /\ hist.minutes = Num(5) /\ hist.bucketSec = Num(60)
    /\ hist.now > calls[id].at
    /\ Output(hist.points) =
         << [x \in {<<"ts">>, <<"pass">>, <<"fail">>} |->
               IF x = <<"pass">> THEN Num(5)
               ELSE IF x = <<"fail">> THEN Num(1)
               ELSE Iso(BucketStart(calls[id].at, 60000))] >>

(* the timestamps of the rows call id wrote *)
TimesOf(id) == {store[i].time : i \in RowsOf(id)}

(* calls a and b of one station wrote their rows with timestamps t and     *)
(* t + 10 s, and a history call with bucket width 60 s followed both, its  *)
(* window containing both timestamps                                       *)
TenSecondsApart(a, b, t) ==
  /\ calls[a].status = 201 /\ calls[b].status = 201
  /\ calls[a].stationId = calls[b].stationId
  /\ TimesOf(a) = {t} /\ TimesOf(b) = {t + 10000}
  /\ Follows(a) /\ Follows(b)
  /\ hist.bucketSec = Num(60)
  /\ hist.from.ms <= t /\ t + 10000 <= hist.now

(* the rows of a and b are in point p and in no other point *)
OnePoint(a, b, p) ==
  /\ RowsOf(a) \cup RowsOf(b) \subseteq hist.points[p].rows
  /\ \A q \in 1..Len(hist.points) :
       q # p => hist.points[q].rows \cap (RowsOf(a) \cup RowsOf(b)) = {}

(* point p reports the value of every key of call b that no later sample   *)
(* of the bucket wrote again                                               *)
LaterWins(b, p) ==
  \A j \in RowsOf(b) :
    LastOfKey(j) =>
      /\ store[j].k \in DOMAIN hist.points[p].g
      /\ hist.points[p].g[store[j].k] = store[j].v

(* C14 as claimed: for every t, two calls of one station with timestamps t *)
(* and t + 10 s inside the window, read with bucket width 60 s, are in     *)
(* exactly one bucket, whose values are those of the later call.           *)
C14_AlwaysOneBucket ==
  \A a, b \in CallIds :
    \A t \in TimesOf(a) :
      TenSecondsApart(a, b, t) =>
        \E p \in 1..Len(hist.points) : OnePoint(a, b, p) /\ LaterWins(b, p)

(* C14 as amended: the two calls are in exactly one bucket if and only if  *)
(* t and t + 10 s have the same bucket index floor(time / 60 s); the       *)
(* values of the later call are then those the bucket reports for its      *)
(* keys; otherwise each call has a point of its own.                       *)
C14_OneBucketWhenAligned ==
  \A a, b \in CallIds :
    \A t \in TimesOf(a) :
      TenSecondsApart(a, b, t) =>
        IF BucketIndex(t, 60) = BucketIndex(t + 10000, 60)
        THEN \E p \in 1..Len(hist.points) : OnePoint(a, b, p) /\ LaterWins(b, p)
        ELSE \E p, q \in 1..Len(hist.points) :
               /\ p < q
               /\ RowsOf(a) \subseteq hist.points[p].rows
               /\ RowsOf(b) \subseteq hist.points[q].rows
               /\ LaterWins(b, q)

C14_Witness ==
  \E a, b \in CallIds :
    /\ TenSecondsApart(a, b, 45000)
    /\ Len(store) = 3
    /\ calls[a].body = Flat(Str(S1), << Field(<<"pass">>, Num(5)), Field(<<"fail">>, Num(1)) >>)
    /\ Len(hist.points) = 1
    /\ hist.points[1].g[<<"pass">>] = Num(7)
    /\ hist.points[1].g[<<"fail">>] = Num(1)

(* the key and value of each row of a call, in order *)
Pairs(rows) == [i \in 1..Len(rows) |-> <<rows[i].k, rows[i].v>>]

(* the entries of an events list that carry a key and a value that is      *)
(* absent or coerces to a number                                           *)
GoodEntries(es) ==
  SelectSeq(es, LAMBDA e : ~IsNullish(Prop(e, "k")) /\ ~Malformed(Prop(e, "v")))

(* the top-level fields that are numbers, without stationId, deviceId, time *)
NumericFields(body) ==
  SelectSeq(OwnEntries(body), LAMBDA p : p[1] \notin Reserved /\ p[2].t = "num")

(* C15: exactly one payload shape is used per ingestion call, in the       *)
(* priority order events list, k/v pair, flat map: with an events list     *)
(* only its entries become observations; otherwise with both k and v only  *)
(* that pair does; otherwise the numeric top-level fields do, and          *)
(* stationId, deviceId, time and every non-numeric field are skipped.      *)
C15_OneShape ==
  \A id \in CallIds :
    LET body == calls[id].body
        got == Pairs(calls[id].rows)
    IN ~BlankStation(body.stationId) =>
         /\ body.events.t = "arr" =>
              LET es == GoodEntries(body.events.es)
              IN got = [i \in 1..Len(es) |-> <<ToStr(es[i].k), NumOf(es[i].v)>>]
         /\ (body.events.t # "arr" /\ body.k # Undef /\ body.v # Undef) =>
              got = IF IsNullish(body.k) \/ Malformed(body.v) THEN <<>>
                    ELSE << <<ToStr(body.k), NumOf(body.v)>> >>
         /\ (body.events.t # "arr" /\ ~(body.k # Undef /\ body.v # Undef)) =>
              LET fs == NumericFields(body)
              IN got = [i \in 1..Len(fs) |-> <<fs[i][1], fs[i][2]>>]
         /\ calls[id].status = 201 =>
              Pairs(SelectSeq(store, LAMBDA r : r.src = id)) = got

C15_Witness ==
  \E a, b \in CallIds :
    /\ calls[a].body.events.t = "arr" /\ calls[a].body.k # Undef /\ calls[a].body.v # Undef
    /\ calls[a].body.fields # <<>>
    /\ calls[a].status = 201
    /\ Pairs(calls[a].rows) = << <<(<<"pass">>), Num(5)>> >>
    /\ calls[b].body.events.t # "arr" /\ calls[b].body.k # Undef /\ calls[b].body.v # Undef
    /\ calls[b].body.fields # <<>>
    /\ calls[b].status = 201
    /\ Pairs(calls[b].rows) = << <<(<<"speed">>), Num(7)>> >>
    /\ Len(store) = 2

(* the telemetry events in the log of channel c *)
Snapshots(c) == {i \in 1..Len(chans[c].log) : chans[c].log[i].kind = "telemetry"}

(* C16 as claimed: an allow-listed key reported by an earlier ingestion    *)
(* for the station and absent from this batch still appears in the         *)
(* snapshot this call publishes.                                           *)
C16_SnapshotMerged ==
  \A c \in ChanIds :
    \A i, j \in Snapshots(c) :
      i < j =>
        \A k \in SnapshotKeys :
          k \in DOMAIN chans[c].log[i].data => k \in DOMAIN chans[c].log[j].data

(* the rows of a batch that give key k a value *)
Valued(rows, k) == {i \in 1..Len(rows) : rows[i].k = k /\ rows[i].v # Null}

(* C16 as amended: the snapshot an ingestion call publishes carries, beside *)
(* stationId and ts, exactly the allow-listed keys that have a value in    *)
(* this batch, each with its last value in the batch; an allow-listed key  *)
(* absent from the batch does not appear, whatever earlier calls reported. *)
C16_SnapshotOfBatch ==
  \A c \in ChanIds :
    \A j \in Snapshots(c) :
      LET data == chans[c].log[j].data
          rows == calls[chans[c].log[j].call].rows
      IN /\ DOMAIN data =
              {<<"stationId">>, <<"ts">>} \cup {k \in SnapshotKeys : Valued(rows, k) # {}}
         /\ \A k \in SnapshotKeys :
              Valued(rows, k) # {} =>
                data[k] = rows[CHOOSE i \in Valued(rows, k) :
                                 \A x \in Valued(rows, k) : x <= i].v

C16_Witness ==
  \E c \in ChanIds :
    \E i, j \in Snapshots(c) :
      /\ i < j
      /\ chans[c].log[i].ok /\ chans[c].log[j].ok
      /\ chans[c].log[i].data[<<"stationId">>] = chans[c].log[j].data[<<"stationId">>]
      /\ <<"pass">> \in DOMAIN chans[c].log[i].data
      /\ <<"pass">> \notin DOMAIN chans[c].log[j].data
      /\ <<"speed">> \in DOMAIN chans[c].log[j].data

(* the metric keys of a snapshot *)
Metrics(data) == DOMAIN data \ {<<"stationId">>, <<"ts">>}

(* C17: the ingestion gateway is the only writer and the only publisher:   *)
(* every row of the table and every snapshot written to a channel comes    *)
(* from an ingestion call, none from the simulator, and every metric value *)
(* of a delivered snapshot equals a value persisted for that station.      *)
C17_GatewayOnly ==
  /\ \A i \in 1..Len(store) : store[i].src \in CallIds
  /\ \A c \in ChanIds :
       \A j \in Snapshots(c) :
         LET ev == chans[c].log[j]
         IN /\ ev.call \in CallIds
            /\ \A k \in Metrics(ev.data) :
                 \E i \in 1..Len(store) :
                   /\ Str(store[i].stationId) = ev.data[<<"stationId">>]
                   /\ store[i].k = k
                   /\ store[i].v = ev.data[k]

(* C18: a store failure during an ingestion call or a history call is      *)
(* caught by the handler and answered 500, which differs from the 400 of a *)
(* validation failure; an ingestion call ends in exactly one of success    *)
(* (201, its rows written), validation failure (400, no write asked for)   *)
(* and server-side failure (500, its write rejected), and no store error   *)
(* ends the process.                                                       *)
C18_StoreFailureCaught ==
  [][ /\ ~crashed'
      /\ \A id \in CallIds :
           /\ calls[id].pc = "failed" =>
                \/ calls'[id] = calls[id]
                \/ /\ calls'[id].pc = "done"
                   /\ calls'[id].status = 500
                   /\ calls'[id].error = "ingest failed"
           /\ (calls[id].pc = "awaitWrite" /\ calls'[id].pc # "awaitWrite") =>
                \/ calls'[id].pc = "written" /\ RowsOf(id)' # {}
                \/ calls'[id].pc = "failed" /\ store' = store
      /\ \A id \in 1..Len(calls') :
           calls'[id].pc = "done" =>
             /\ calls'[id].status \in {201, 400, 500}
             /\ calls'[id].status = 201 <=> RowsOf(id)' # {}
             /\ calls'[id].status = 400 <=>
                  (calls'[id].stationId = <<>> \/ calls'[id].rows = <<>>)
             /\ calls'[id].status = 400 <=>
                  calls'[id].error \in {"stationId required", "no metrics"}
             /\ calls'[id].status = 500 <=> calls'[id].error = "ingest failed"
      /\ (hist.pc = "reading" /\ hist'.pc = "done") =>
           \/ hist'.status = 200 /\ hist'.error = ""
           \/ hist'.status = 500 /\ hist'.error = "query failed" /\ hist'.points = <<>>
      /\ hist'.pc = "done" =>
           (hist'.status = 400 <=> hist'.error = "stationId required")
    ]_vars

C18_Witness ==
  /\ \E id \in CallIds :
       calls[id].status = 500 /\ calls[id].rows # <<>> /\ RowsOf(id) = {}
  /\ \E id \in CallIds : calls[id].status = 400
  /\ hist.status = 500 /\ hist.from.t = "date"
  /\ ~crashed

(* C19: the history call covers the window [now - lookback, now]: every    *)
(* sample folded into a returned point has its time inside the window, so  *)
(* a sample stamped later than the instant of the call, or earlier than    *)
(* that instant less the lookback, is in no point.                         *)
C19_WindowCovered ==
  Answered =>
    \A p \in 1..Len(hist.points) :
      \A i \in hist.points[p].rows :
        /\ hist.from.ms <= store[i].time
        /\ store[i].time <= hist.now

(* station ids a viewer can subscribe with through either form *)
AliasIds == {Str(S1), Str(S2), Str(<<" ", "S1">>)}

(* C20: the two subscribe forms are aliases: for the same station id a     *)
(* step is a subscribe through the path form exactly if it is a subscribe  *)
(* through the query form (same station key, same set, same handshake,     *)
(* same timer and close listener), and a publish writes the same snapshot  *)
(* to all channels registered under the station.                           *)
C20_SubscribeAliases ==
  [][ /\ \A id \in AliasIds, peer \in {"open", "gone"}, o \in WriteResults :
           SubscribePath(id, peer, o) <=> SubscribeQuery(id, peer, o)
      /\ \A id \in CallIds :
           Publishes(id) =>
             \A a, b \in RegisteredUnder(calls[id].stationId) :
               /\ WrittenTo(a, id) /\ WrittenTo(b, id)
               /\ chans'[a].log[Len(chans'[a].log)].data
                    = chans'[b].log[Len(chans'[b].log)].data
    ]_vars

C20_Witness ==
  \E a, b \in ChanIds :
    /\ a # b
    /\ chans[a].station = S1 /\ chans[b].station = S1
    /\ chans[a].set = chans[b].set
    /\ {a, b} \subseteq RegisteredUnder(S1)
    /\ chans[a].timer /\ chans[b].timer
    /\ Len(chans[a].log) = 2
    /\ chans[a].log = chans[b].log
    /\ chans[a].log[2].kind = "telemetry" /\ chans[a].log[2].ok

(* the connection of channel c has closed: its close listener has run, or  *)
(* its peer has gone and no close listener waits for the event             *)
HasClosed(c) == chans[c].closed \/ (chans[c].peer = "gone" /\ ~chans[c].onClose)

(* the station keys ever subscribed to *)
Stations == DOMAIN channels \cup {chans[c].station : c \in ChanIds}

(* the step is a subscribe, or the close of a channel *)
SubscribeStep == Len(chans') = Len(chans) + 1

CloseStep == \E c \in ChanIds : Closes(c)

(* C24: the registry is empty at process start; at every moment it maps    *)
(* each station to exactly the channels that subscribed to it and have not *)
(* closed, every open channel being in the set of exactly one station; and *)
(* only a subscribe and a close change it.                                 *)
C24_RegistryExact ==
  /\ channels = EmptyMap
  /\ [](\A s \in Stations :
          RegisteredUnder(s) = {c \in ChanIds : chans[c].station = s /\ ~HasClosed(c)})
  /\ [](\A c \in ChanIds :
          ~HasClosed(c) => Cardinality({s \in Stations : c \in RegisteredUnder(s)}) = 1)
  /\ [][ (channels' # channels \/ sets' # sets) => (SubscribeStep \/ CloseStep) ]_vars

(* the step is a publish: an ingestion call or a simulator run hands its   *)
(* snapshot to sseBroadcast                                                *)
PublishStep ==
  \/ \E id \in CallIds : Publishes(id)
  \/ \E s \in 1..Len(sims) : sims[s].pc = "written" /\ sims'[s].pc = "sleep"

(* C25: a publish never changes the registry: after any publish, one in    *)
(* which a channel write fails included, the map and every subscriber set  *)
(* are as before; and a channel leaves the set of its station only in the  *)
(* step of its own close.                                                  *)
C25_PublishKeepsRegistry ==
  [][ /\ PublishStep => (channels' = channels /\ sets' = sets)
      /\ \A c \in ChanIds :
           (c \in RegisteredUnder(chans[c].station)
              /\ c \notin RegisteredUnder(chans[c].station)') => Closes(c)
    ]_vars

(* a publish has failed on a channel that is still registered *)
C25_Witness ==
  \E c \in ChanIds, id \in CallIds :
    /\ c \in RegisteredUnder(chans[c].station)
    /\ \E i \in EventsOf(c, id) : ~chans[c].log[i].ok
    /\ calls[id].status = 201

(* a write of call id has failed on some channel *)
FailedWrite(id) == \E c \in ChanIds : \E i \in EventsOf(c, id) : ~chans[c].log[i].ok

(* C26: a write failure on a live channel never surfaces as an error or a  *)
(* fault: a call one of whose snapshot writes failed still answers 201     *)
(* with all its rows persisted, and no failed handshake or keep-alive      *)
(* write ends in an uncaught exception.                                    *)
C26_WriteFailureSilent ==
  /\ \A id \in CallIds :
       FailedWrite(id) =>
         /\ calls[id].status = 201
         /\ calls[id].inserted = Len(calls[id].rows)
         /\ Cardinality(RowsOf(id)) = Len(calls[id].rows)
  /\ ~crashed

(* the body carries a top-level pair with a key and a value the            *)
(* normalisation accepts                                                   *)
ValidPair(body) ==
  /\ body.k # Undef /\ body.v # Undef
  /\ ~IsNullish(body.k) /\ ~Malformed(body.v)

(* C27: the shapes are strategies tried in priority order and a strategy   *)
(* that yields no observation declines: a call with a station id whose     *)
(* events list yields no accepted observation, and which carries a valid   *)
(* top-level pair or numeric top-level fields, is not rejected: the        *)
(* observations of the next shape are its rows.                            *)
C27_ShapeFallThrough ==
  \A id \in CallIds :
    LET body == calls[id].body
    IN (/\ ~BlankStation(body.stationId)
        /\ body.events.t = "arr"
        /\ GoodEntries(body.events.es) = <<>>
        /\ ValidPair(body) \/ NumericFields(body) # <<>>
        /\ calls[id].pc = "done") =>
         /\ calls[id].status # 400
         /\ calls[id].rows # <<>>

(* C28: besides stationId and ts a snapshot published by an ingestion     *)
(* call holds only keys of the allow-list, each with a non-null value of a *)
(* row the same call persisted; a key outside the allow-list and a         *)
(* null-valued row never show in it.                                       *)
C28_SnapshotAllowList ==
  \A c \in ChanIds :
    \A j \in Snapshots(c) :
      LET ev == chans[c].log[j]
      IN ev.call \in CallIds =>
           /\ {<<"stationId">>, <<"ts">>} \subseteq DOMAIN ev.data
           /\ ev.data[<<"stationId">>] = Str(calls[ev.call].stationId)
           /\ ev.data[<<"ts">>].t = "iso"
           /\ Metrics(ev.data) \subseteq SnapshotKeys
           /\ \A k \in Metrics(ev.data) :
                /\ ev.data[k] # Null
                /\ \E i \in RowsOf(ev.call) : store[i].k = k /\ store[i].v = ev.data[k]

C28_Witness ==
  \E c \in ChanIds :
    \E i, j \in Snapshots(c) :
      LET a == chans[c].log[i].call
          b == chans[c].log[j].call
      IN /\ a \in CallIds /\ b \in CallIds
         /\ \E x \in RowsOf(a) : store[x].k \notin SnapshotKeys /\ store[x].v # Null
         /\ Metrics(chans[c].log[i].data) = {<<"pass">>}
         /\ \E x \in RowsOf(b) : store[x].k \in SnapshotKeys /\ store[x].v = Null
         /\ chans[c].log[j].data[<<"pass">>] = Num(5)

(* the samples folded into point p that carry a value for key k *)
ValuedIn(p, k) == {i \in hist.points[p].rows : store[i].k = k /\ store[i].v # Null}

(* the keys of the samples the call read, and the label of a point *)
SampleKeys == {store[i].k : i \in 1..Len(store)}

Label == <<"ts">>

(* C29: in a returned point a metric key is present if and only if the     *)
(* bucket holds, among the samples the call read, a sample of that key     *)
(* with a value, and its value is that of a latest such sample: a sample   *)
(* without value erases no key, and an absent key is not filled in.        *)
C29_LastNonNull ==
  Answered =>
    \A p \in 1..Len(hist.points) :
      LET g == hist.points[p].g
      IN /\ \A k \in (SampleKeys \cup DOMAIN g) \ {Label} :
              k \in DOMAIN g <=> ValuedIn(p, k) # {}
         /\ \A k \in DOMAIN g \ {Label} :
              \E i \in ValuedIn(p, k) :
                /\ g[k] = store[i].v
                /\ \A x \in ValuedIn(p, k) : store[x].time <= store[i].time

(* a point keeps the value of a key after a later sample of the key        *)
(* without value, and a point has no entry for a key without valued sample *)
C29_Witness ==
  /\ Answered
  /\ \E p \in 1..Len(hist.points) :
       \E i, j \in hist.points[p].rows :
         /\ store[i].k = <<"pass">> /\ store[j].k = <<"pass">>
         /\ store[i].v = Num(5) /\ store[j].v = Null
         /\ store[i].time < store[j].time
         /\ hist.points[p].g[<<"pass">>] = Num(5)
  /\ \E p \in 1..Len(hist.points) :
       /\ \E i \in hist.points[p].rows : store[i].k = <<"speed">>
       /\ <<"speed">> \notin DOMAIN hist.points[p].g

(* the bucket starts of the samples the call read *)
Populated ==
  {BucketStart(store[hist.rows[x]].time, hist.bucketSec.n * 1000) : x \in 1..Len(hist.rows)}

(* C30: the points of an answer are in strictly ascending order of bucket  *)
(* start, one point per populated bucket: the ts of every point is the     *)
(* text of an instant that is a multiple of the bucket width, no two       *)
(* points have the same ts, and the ts of the points are the starts of the *)
(* populated buckets.                                                      *)
C30_PointsAscending ==
  Answered =>
    /\ \A p \in 1..Len(hist.points) :
         /\ hist.points[p].g[Label].t = "iso"
         /\ hist.points[p].g[Label].ms % (hist.bucketSec.n * 1000) = 0
    /\ \A p, q \in 1..Len(hist.points) :
         p < q => hist.points[p].g[Label].ms < hist.points[q].g[Label].ms
    /\ {hist.points[p].g[Label].ms : p \in 1..Len(hist.points)} = Populated

(* the runs of the simulator, and the batches run s has persisted: a batch *)
(* holds one row for each key of the dashboard                             *)
RunIds == 1..Len(sims)

Batches(s) == Cardinality(RowsOf(SimSrc(s))) \div Cardinality(SnapshotKeys)

Ended(s) == sims[s].pc \in {"done", "failed"}

(* C23: every simulator run terminates: it makes at most 12 passes, each   *)
(* persisting one batch and then publishing one snapshot, and it persists  *)
(* and publishes nothing after its last pass or after a failed write.      *)
C23_RunTerminates ==
  /\ [](\A s \in RunIds :
          /\ sims[s].i <= SimRounds
          /\ Cardinality(RowsOf(SimSrc(s))) = Cardinality(SnapshotKeys) * Batches(s)
          /\ Batches(s) = sims[s].i + (IF sims[s].pc \in {"written", "sleep"} THEN 1 ELSE 0)
          /\ Batches(s) <= SimRounds
          /\ \A c \in ChanIds :
               Cardinality(EventsOf(c, SimSrc(s)))
                 <= sims[s].i + (IF sims[s].pc = "sleep" THEN 1 ELSE 0))
  /\ [][ \A s \in RunIds :
           /\ (sims[s].pc = "written" /\ sims'[s].pc = "sleep") =>
                \A c \in RegisteredUnder(sims[s].stationId) : WrittenTo(c, SimSrc(s))
           /\ Ended(s) =>
                /\ sims'[s] = sims[s]
                /\ RowsOf(SimSrc(s))' = RowsOf(SimSrc(s))
                /\ \A c \in ChanIds : EventsOf(c, SimSrc(s))' = EventsOf(c, SimSrc(s))
       ]_vars
  /\ (sims # <<>>) ~> (sims # <<>> /\ Ended(1))

(* a run has ended after its last pass with a viewer that saw every pass,  *)
(* and a run has ended after a failed write                                *)
C23_Witness ==
  /\ sims # <<>>
  /\ sims[1].pc = "done"
  /\ Batches(1) = SimRounds
  /\ \E c \in ChanIds : Cardinality(EventsOf(c, SimSrc(1))) = SimRounds

(* the last frame a view has received *)
Newest(v) == v.got[Len(v.got)]

(* the telemetry data events of the channel *)
DataFrames == { TelemetryFrame(p) : p \in ViewPayloads }

(* the view has received a telemetry data event *)
HasData(v) == \E i \in 1..Len(v.got) : v.got[i] \in DataFrames

HeardNotJson(v) == \E i \in 1..Len(v.got) : v.got[i] = NotJson

Outputs ==
  { Output(BucketPoints(o, hist.bucketSec.n)) :
      o \in TimeOrders(Matching(hist.stationId, hist.from)) }

(* C31: the bucketed result does not depend on the order in which the      *)
(* samples arrived at or are held in the store: for one query instant and  *)
(* one set of parameters, every order in which the table can hold and      *)
(* return the samples of the window (samples of one key with equal         *)
(* timestamps and different values included) gives the output the call     *)
(* answered.                                                               *)
C31_OrderIndependent ==
  (Answered /\ hist.bucketSec # NaN) => Outputs = {Output(hist.points)}

(* the rows the step adds to the table *)
Added == { store'[i] : i \in (Len(store) + 1)..Len(store') }

(* C32: history for a station depends only on the samples of that station: *)
(* a call reads and folds only rows of its station, and for a call in      *)
(* progress or answered, the outputs the handler can answer with are the   *)
(* same before and after a write that adds only samples of other stations  *)
(* to the table.                                                           *)
C32_StationIsolated ==
  /\ [](Answered => \A i \in 1..Len(hist.rows) : store[hist.rows[i]].stationId = hist.stationId)
  /\ [][ ( /\ hist.pc = "reading" \/ Answered
           /\ hist' = hist
           /\ Added # {}
           /\ \A r \in Added : r.stationId # hist.stationId ) => Outputs' = Outputs
       ]_vars

(* a call for S1 was answered with a point, and a sample of S2 that lies   *)
(* in its window was written by a call that arrived after it               *)
C32_Witness ==
  /\ Answered
  /\ hist.stationId = S1
  /\ hist.points # <<>>
  /\ \E i \in 1..Len(store) :
       /\ store[i].stationId = S2
       /\ store[i].time >= hist.from.ms
       /\ calls[store[i].src].at > hist.now

(* the row was written by an ingestion call whose payload gave it no time *)
OmittedTime(r) ==
  /\ r.src > 0
  /\ LET body == calls[r.src].body
     IN IF body.events.t = "arr"
        THEN \A e \in 1..Len(body.events.es) : ~Truthy(Prop(body.events.es[e], "time"))
        ELSE ~Truthy(body.time)

(* C33: every row in the store has a non-empty stationId and a non-empty   *)
(* key, and every row written by a call that omitted time carries the      *)
(* instant that call arrived at; a row of a simulator run carries the      *)
(* station the run was started for.                                        *)
C33_RowsWellFormed ==
  \A i \in 1..Len(store) :
    /\ store[i].stationId # <<>>
    /\ store[i].k # <<>>
    /\ OmittedTime(store[i]) => store[i].time = calls[store[i].src].at
    /\ store[i].src < 0 => store[i].stationId = sims[0 - store[i].src].stationId

(* the place of the snapshot of call id in the log of channel c *)
PlaceOf(c, id) == CHOOSE i \in EventsOf(c, id) : TRUE

(* C34: calls for one station are not ordered against each other: a        *)
(* snapshot is written to a channel only by a call whose own write has     *)
(* completed, whatever the state of the calls that arrived before it, and  *)
(* each call writes at most one snapshot to a channel; the snapshots of    *)
(* two racing calls reach a channel in either order.                       *)
C34_OwnWriteOnly ==
  /\ [](\A id \in CallIds, c \in ChanIds : Cardinality(EventsOf(c, id)) <= 1)
  /\ [][ \A id \in CallIds, c \in ChanIds :
           WrittenTo(c, id) =>
             /\ calls[id].pc = "written"
             /\ Cardinality(RowsOf(id)) = Len(calls[id].rows)
             /\ store' = store
       ]_vars

(* two calls for one station: the one that arrived second had its write    *)
(* completed first and its snapshot published first                        *)
C34_Witness ==
  \E a, b \in CallIds, c \in ChanIds :
    /\ a < b
    /\ calls[a].stationId = calls[b].stationId
    /\ EventsOf(c, a) # {} /\ EventsOf(c, b) # {}
    /\ PlaceOf(c, b) < PlaceOf(c, a)
    /\ \A i \in RowsOf(a), j \in RowsOf(b) : j < i

(* two calls for one station published in the order they arrived in *)
C34_InOrder ==
  \E a, b \in CallIds, c \in ChanIds :
    /\ a < b
    /\ calls[a].stationId = calls[b].stationId
    /\ EventsOf(c, a) # {} /\ EventsOf(c, b) # {}
    /\ PlaceOf(c, a) < PlaceOf(c, b)

(* the stations with a channel whose close listener has not run *)
Watched == { chans[c].station : c \in {x \in ChanIds : ~chans[x].closed} }

(* C35: in the alternate revision the registry removes the entry of a      *)
(* station when its last channel closes: after any sequence of subscribes  *)
(* and closes the stations with an entry are the stations watched now.     *)
C35_EntriesBounded ==
  /\ DOMAIN channels = Watched
  /\ \A s \in DOMAIN channels : sets[channels[s]] # <<>>

(* C36: after the close event of a channel nothing further is written to  *)
(* it: its keep-alive timer is cancelled, it is in the set of no station,  *)
(* and no later publish for its station reaches it.                        *)
C36_SilentAfterClose ==
  /\ [](\A c \in ChanIds :
          HasClosed(c) => ~chans[c].timer /\ \A s \in Stations : c \notin RegisteredUnder(s))
  /\ [][ \A c \in ChanIds : HasClosed(c) => chans'[c].log = chans[c].log ]_vars

(* C37, as amended. A history answer has one point for every bucket that  *)
(* holds a sample of the window, whatever the values of the samples: the   *)
(* keys of a point are ts and the keys of the valued samples of its        *)
(* bucket, so a bucket whose samples are all without value produces a      *)
(* point that carries ts alone.                                            *)
C37_PointPerBucket ==
  (Answered /\ hist.bucketSec # NaN) =>
    /\ Len(hist.points) = Cardinality(Populated)
    /\ \A p \in 1..Len(hist.points) :
         /\ hist.points[p].rows # {}
         /\ DOMAIN hist.points[p].g =
              {Label} \cup {store[i].k : i \in {x \in hist.points[p].rows : store[x].v # Null}}

(* an answer with a point that carries ts alone, from a bucket whose       *)
(* samples are all without value, next to a point with a metric            *)
C37_Witness ==
  /\ Answered
  /\ \E p, q \in 1..Len(hist.points) :
       /\ hist.points[p].rows # {}
       /\ \A i \in hist.points[p].rows : store[i].v = Null
       /\ DOMAIN hist.points[p].g = {Label}
       /\ <<"pass">> \in DOMAIN hist.points[q].g

(* C37 as stated: every point of an answer carries at least one metric key *)
(* besides ts.                                                             *)
C37_MetricInEveryPoint ==
  Answered => \A p \in 1..Len(hist.points) : DOMAIN hist.points[p].g # {Label}

(* the ts of the telemetry data event the live view receives in the step *)
NewestTs == Member(Newest(live').data.v, <<"ts">>)

(* C38: the live view processes a telemetry event only if its ts differs   *)
(* from the ts of the event it processed last, so that of consecutive      *)
(* events with one ts only the first changes the snapshot and yields a     *)
(* chart point, and a paused view processes none: an event it receives     *)
(* changes neither its snapshot nor its pending chart point.               *)
C38_DedupAndPause ==
  [][ (live'.got # live.got /\ Newest(live') \in DataFrames) =>
        /\ (live.paused \/ NewestTs = live.lastTs) => live' = [live EXCEPT !.got = live'.got]
        /\ live'.lastSnap # live.lastSnap =>
             /\ live'.lastTs = NewestTs
             /\ live'.pending = <<live'.lastSnap>>
    ]_vars

(* ---------------------------------------------------------------------- *)
(* C39: in the smoothed view the status changes to a new value only in the *)
(* read that is the statusStableReads-th in a row to carry that value; the *)
(* streak counts exactly the latest reads in a row that carry the          *)
(* candidate, so a read carrying the current status, no status or another  *)
(* value starts it again; the status, and the status of every point shown, *)
(* is IDLE or a value read statusStableReads times in a row                *)
(* ---------------------------------------------------------------------- *)
Carried(i) == Member(smooth.read[i], <<"status">>)

InARow(x, n, last) ==
  /\ n <= last
  /\ \A j \in (last - n + 1)..last : Carried(j) = x

Settled(x) ==
  \/ x = Str(<<"IDLE">>)
  \/ \E last \in 1..Len(smooth.read) : InARow(x, statusStableReads, last)

C39_StreakCounts ==
  LET s == smooth.status
      n == Len(smooth.read)
  IN /\ Settled(s.current)
     /\ \A i \in 1..Len(smooth.points) : Settled(smooth.points[i].status)
     /\ \/ s.streak = 0 /\ s.candidate = Null
        \/ /\ s.streak \in 1..(statusStableReads - 1)
           /\ s.candidate # s.current
           /\ InARow(s.candidate, s.streak, n)
           /\ ~InARow(s.candidate, s.streak + 1, n)

C39_StatusHysteresis ==
  /\ []C39_StreakCounts
  /\ [][ smooth'.status.current # smooth.status.current =>
           /\ Len(smooth'.read) = Len(smooth.read) + 1
           /\ \A j \in (Len(smooth'.read) - statusStableReads + 1)..Len(smooth'.read) :
                j >= 1 /\ Member(smooth'.read[j], <<"status">>) = smooth'.status.current
           /\ smooth.status.streak = statusStableReads - 1 ]_vars

C39_Witness ==
  /\ smooth.status.current = Str(<<"RUNNING">>)
  /\ \E i \in 1..Len(smooth.read) : Carried(i) = Str(<<"DOWN">>)
  /\ \E i \in 1..Len(smooth.read) : IsNullish(Carried(i))
  /\ smooth.points # <<>>
  /\ smooth.points[Len(smooth.points)].status = Str(<<"RUNNING">>)

(* ---------------------------------------------------------------------- *)
(* C40: the list of points of a view never holds more than maxPoints       *)
(* points; a flush (a sample in the smoothed view) puts its point last and *)
(* keeps before it the latest of the points there were, in their order, as *)
(* many as fit                                                             *)
(* ---------------------------------------------------------------------- *)
LatestKept(old, new, maxPoints) ==
  LET n == Len(new)
  IN /\ n = (IF Len(old) + 1 > maxPoints THEN maxPoints ELSE Len(old) + 1)
     /\ \A i \in 1..(n - 1) : new[i] = old[Len(old) - (n - 1) + i]

Flushed == live.timer /\ ~live'.timer /\ live.pending # <<>>

Sampled ==
  /\ smooth' # smooth
  /\ [smooth' EXCEPT !.ema = smooth.ema, !.points = smooth.points] = smooth
  /\ ~(smooth'.points = <<>> /\ smooth'.ema = smooth.ema)

C40_BufferBounded ==
  /\ [](Len(live.points) <= LiveMaxPoints /\ Len(smooth.points) <= SmoothMaxPoints)
  /\ [][ /\ Flushed =>
             /\ LatestKept(live.points, live'.points, LiveMaxPoints)
             /\ live'.points[Len(live'.points)].t = live.pending[1].ts
             /\ live'.points[Len(live'.points)].pass = live.pending[1].pass
         /\ Sampled =>
             /\ LatestKept(smooth.points, smooth'.points, SmoothMaxPoints)
             /\ smooth'.points[Len(smooth'.points)].status = smooth.raw.status
             /\ smooth'.points[Len(smooth'.points)].speed = smooth'.ema.speed ]_vars

C40_Witness ==
  /\ live.dropped > 0
  /\ Len(live.points) = LiveMaxPoints
  /\ live.points[LiveMaxPoints].t = live.lastSnap.ts
  /\ live.pending = <<>>

====
